---- MODULE Spec2Model ----
(***************************************************************************)
(* Model of the statement parsers of pdf-reader:                           *)
(*   processDBSStatementData / processAmounts / verifyTransactionAmounts   *)
(*   (src/dbs-to-excel.ts) and processCitiStatementData (the TypeScript    *)
(*   part of src/README.md).                                               *)
(*                                                                         *)
(* Text is modelled as a sequence of tokens.  A token is a word (k = "w",  *)
(* s its text), a DD/MM/YYYY date (k = "d"), or a monetary amount (k = "a",*)
(* c its value in cents, f its formatting: "" plain, "," written with a    *)
(* thousands separator, "()" wrapped in parentheses).  The empty string is *)
(* the word token with empty text.  String.includes(kw) is token           *)
(* containment, decided per word by WordHas.                               *)
(***************************************************************************)
EXTENDS Integers, Sequences, FiniteSets, TLC

VARIABLES
  bank,            \* which parser runs: "dbs", "citi" ("fn", "pa" in the function harnesses)
  pc,              \* "scan" while lines are read, "done" after the parser returned
  i,               \* number of lines consumed so far (the loop index)
  ruledOut,        \* the lines that a look at lines[i+1] has shown not to come next
  lastStep,        \* history: the branch the last line read took
  isTransactionSection,
  currentAccount,
  currentTransaction,
  multiLineDescription,
  lastBalance,
  recipientLines,
  isCollectingRecipientInfo,
  transactions,
  accountNumber,   \* Citi metadata, as are the next four
  statementPeriod,
  cardType,
  statementYear,
  statementMonth,
  hist,            \* history: per pushed transaction, how it was opened and closed
  draftHist,       \* history of the open draft
  opened,          \* history: line indices of all date anchors that opened a draft
  bbfAt,           \* history: Len(transactions) at the last matching Balance Brought Forward, or -1
  bbfAmt,          \* history: the amount of that line, in cents
  fnIn,            \* function harness: the arguments
  fnOut            \* function harness: the result

\* locals of processDBSStatementData only
dbsVars == <<currentAccount, multiLineDescription, lastBalance, recipientLines,
             isCollectingRecipientInfo, bbfAt, bbfAmt>>
\* locals of processCitiStatementData only
citiVars == <<accountNumber, statementPeriod, cardType, statementYear, statementMonth>>
fnVars == <<fnIn, fnOut>>

vars == <<bank, pc, i, ruledOut, lastStep, isTransactionSection, currentTransaction, transactions,
          hist, draftHist, opened, dbsVars, citiVars, fnVars>>

----------------------------------------------------------------------------
(* Bounds *)

MaxLines == 5

----------------------------------------------------------------------------
(* Tokens and strings *)

W(s) == [k |-> "w", s |-> s, c |-> 0, f |-> ""]
Dt(s) == [k |-> "d", s |-> s, c |-> 0, f |-> ""]
A(c) == [k |-> "a", s |-> "", c |-> c, f |-> ""]
AC(c) == [k |-> "a", s |-> "", c |-> c, f |-> ","]
AP(c) == [k |-> "a", s |-> "", c |-> c, f |-> "()"]

EmptyStr == W("")
NoLine == <<>>
EofLine == <<[k |-> "eof", s |-> "", c |-> 0, f |-> ""]>>
NoTransaction == [open |-> FALSE]

Truthy(str) == str # EmptyStr

\* JavaScript numbers: a value in cents, or NaN.
Num(v) == [nan |-> FALSE, v |-> v]
NaN == [nan |-> TRUE, v |-> 0]

\* parseFloat(str.replace(/,/g, "")): the amount's value, NaN for a string that
\* does not start with a digit (the empty string, a parenthesised amount).
parseFloat(str) ==
  IF str.k = "a" /\ str.f # "()" THEN Num(str.c) ELSE NaN

\* Number.prototype.toFixed(2): two decimals, no thousands separator.
toFixed2(n) == IF n.nan THEN W("NaN") ELSE A(n.v)

NumSub(a, b) == IF a.nan \/ b.nan THEN NaN ELSE Num(a.v - b.v)
NumAbs(a) == IF a.nan THEN NaN ELSE Num(IF a.v < 0 THEN -a.v ELSE a.v)
NumLt(a, b) == ~a.nan /\ ~b.nan /\ a.v < b.v
NumGt(a, b) == ~a.nan /\ ~b.nan /\ a.v > b.v
NumNeq(a, b) == a.nan \/ b.nan \/ a.v # b.v     \* !== : NaN differs from everything
\* x > 0.01 for x a difference of two-decimal amounts: more than one cent.
\* (A difference of exactly one cent is decided by binary rounding in the code;
\* the amounts of this model never differ by exactly one cent.)
GtOneCent(x) == ~x.nan /\ x.v > 1

\* A keyword is looked up as the sequence of its words.
KwWords(kw) ==
  CASE kw = "Transaction Details" -> <<"Transaction", "Details">>
    [] kw = "Account No." -> <<"Account", "No.">>
    [] kw = "Account Summary" -> <<"Account", "Summary">>
    [] kw = "Balance Brought Forward" -> <<"Balance", "Brought", "Forward">>
    [] kw = "End of Statement" -> <<"End", "of", "Statement">>
    [] kw = "Debit Card" -> <<"Debit", "Card">>
    [] kw = "Debit Card Transaction" -> <<"Debit", "Card", "Transaction">>
    [] kw = "DEBIT CARD" -> <<"DEBIT", "CARD">>
    [] kw = "COLD STORAGE" -> <<"COLD", "STORAGE">>
    [] kw = "SERVICE CHARGE" -> <<"SERVICE", "CHARGE">>
    [] kw = "ANNUAL FEE" -> <<"ANNUAL", "FEE">>
    [] kw = "MEMBERSHIP FEE" -> <<"MEMBERSHIP", "FEE">>
    [] kw = "BILL PAYMENT" -> <<"BILL", "PAYMENT">>
    [] kw = "SP GROUP" -> <<"SP", "GROUP">>
    [] kw = "ACCOUNT NUMBER" -> <<"ACCOUNT", "NUMBER">>
    [] kw = "CARD NUMBER" -> <<"CARD", "NUMBER">>
    [] kw = "Statement Date" -> <<"Statement", "Date">>
    [] kw = "STATEMENT DATE" -> <<"STATEMENT", "DATE">>
    [] kw = "TRANSACTIONS FOR" -> <<"TRANSACTIONS", "FOR">>
    [] kw = "ALL TRANSACTIONS" -> <<"ALL", "TRANSACTIONS">>
    [] kw = "GRAND TOTAL" -> <<"GRAND", "TOTAL">>
    [] kw = "TOTAL FOR" -> <<"TOTAL", "FOR">>
    [] kw = "YOUR CITI THANK YOU POINTS" -> <<"YOUR", "CITI", "THANK", "YOU", "POINTS">>
    [] kw = "BALANCE PREVIOUS STATEMENT" -> <<"BALANCE", "PREVIOUS", "STATEMENT">>
    [] kw = "FOREIGN AMOUNT" -> <<"FOREIGN", "AMOUNT">>


MultiWord ==
  {"Transaction Details", "Account No.", "Account Summary", "Balance Brought Forward",
   "End of Statement", "Debit Card", "Debit Card Transaction", "DEBIT CARD", "COLD STORAGE",
   "SERVICE CHARGE", "ANNUAL FEE", "MEMBERSHIP FEE", "BILL PAYMENT", "SP GROUP",
   "ACCOUNT NUMBER", "CARD NUMBER", "Statement Date", "STATEMENT DATE", "TRANSACTIONS FOR",
   "ALL TRANSACTIONS", "GRAND TOTAL", "TOTAL FOR", "YOUR CITI THANK YOU POINTS",
   "BALANCE PREVIOUS STATEMENT", "FOREIGN AMOUNT"}

\* The one-word keywords a word contains: itself, and the listed substrings.
Subs(s) ==
  CASE s = "SUB-TOTAL:" -> {s, "TOTAL"}
    [] s = "Date:" -> {s, "Date"}
    [] s = "DATE:" -> {s, "DATE"}
    [] s = "FOREIGN" -> {s, "FOR"}
    [] OTHER -> {s}

\* toUpperCase of a word
Upper(s) ==
  CASE s = "Debit" -> "DEBIT"
    [] s = "Card" -> "CARD"
    [] s = "Transaction" -> "TRANSACTION"
    [] s = "Salary" -> "SALARY"
    [] s = "Total" -> "TOTAL"
    [] s = "Advice" -> "ADVICE"
    [] s = "Account" -> "ACCOUNT"
    [] s = "Balance" -> "BALANCE"
    [] s = "Brought" -> "BROUGHT"
    [] s = "Forward" -> "FORWARD"
    [] s = "Details" -> "DETAILS"
    [] s = "Statement" -> "STATEMENT"
    [] s = "Date:" -> "DATE:"
    [] s = "No." -> "NO."
    [] OTHER -> s

WordAt(text, n, upper) == IF upper THEN Upper(text[n].s) ELSE text[n].s

MatchAt(text, n, ws, upper) ==
  /\ n + Len(ws) - 1 <= Len(text)
  /\ \A j \in 1..Len(ws) :
       text[n + j - 1].k = "w" /\ ws[j] \in Subs(WordAt(text, n + j - 1, upper))

Has(text, kw, upper) ==
  IF kw \in MultiWord
  THEN LET ws == KwWords(kw) IN \E n \in 1..Len(text) : MatchAt(text, n, ws, upper)
  ELSE \E n \in 1..Len(text) : text[n].k = "w" /\ kw \in Subs(WordAt(text, n, upper))

\* text.includes(kw)
Includes(text, kw) == Has(text, kw, FALSE)
\* text.toUpperCase().includes(kw)
UpperIncludes(text, kw) == Has(text, kw, TRUE)

RECURSIVE SelectToks(_, _)
SelectToks(text, kind) ==
  IF text = <<>> THEN <<>>
  ELSE IF Head(text).k = kind THEN <<Head(text)>> \o SelectToks(Tail(text), kind)
  ELSE SelectToks(Tail(text), kind)

\* [...line.matchAll(/\d+,?\d*\.\d{2}/g)]: the amounts of the line, left to right.
\* The pattern has no parentheses: a parenthesised amount matches without them.
Unparen(a) == IF a.f = "()" THEN A(a.c) ELSE a
DBSAmounts(line) == [n \in 1..Len(SelectToks(line, "a")) |-> Unparen(SelectToks(line, "a")[n])]

\* line.match(/\d{2}\/\d{2}\/\d{4}/)
HasDate(line) == \E n \in 1..Len(line) : line[n].k = "d"
FirstDateIdx(line) == CHOOSE n \in 1..Len(line) : line[n].k = "d" /\ \A m \in 1..(n-1) : line[m].k # "d"
\* line.substring(line.indexOf(date) + date.length).trim()
AfterDate(line) == SubSeq(line, FirstDateIdx(line) + 1, Len(line))

----------------------------------------------------------------------------
(* verifyTransactionAmounts *)

\* Variant: the withdrawal is overwritten and the deposit is kept.
VerifyWithdrawalKeepsDeposit(transaction, expectedWithdrawal) ==
  IF \/ ~Truthy(transaction.Withdrawal)
     \/ NumNeq(parseFloat(transaction.Withdrawal), parseFloat(expectedWithdrawal))
  THEN IF GtOneCent(NumAbs(NumSub(parseFloat(transaction.Withdrawal),
                                  parseFloat(expectedWithdrawal))))
       THEN [transaction EXCEPT !.Withdrawal = expectedWithdrawal]
       ELSE transaction
  ELSE transaction

\* The withdrawal branch (balance decreased).
VerifyWithdrawal(transaction, expectedWithdrawal) ==
  IF \/ ~Truthy(transaction.Withdrawal)
     \/ NumNeq(parseFloat(transaction.Withdrawal), parseFloat(expectedWithdrawal))
  THEN IF GtOneCent(NumAbs(NumSub(parseFloat(transaction.Withdrawal),
                                  parseFloat(expectedWithdrawal))))
       THEN [transaction EXCEPT !.Deposit = EmptyStr, !.Withdrawal = expectedWithdrawal]
       ELSE transaction
  ELSE transaction

\* The deposit branch (balance increased).
VerifyDeposit(transaction, expectedDeposit) ==
  IF \/ ~Truthy(transaction.Deposit)
     \/ NumNeq(parseFloat(transaction.Deposit), parseFloat(expectedDeposit))
  THEN IF GtOneCent(NumAbs(NumSub(parseFloat(transaction.Deposit),
                                  parseFloat(expectedDeposit))))
       THEN [transaction EXCEPT !.Withdrawal = EmptyStr, !.Deposit = expectedDeposit]
       ELSE transaction
  ELSE transaction

\* Variant: the reconciliation runs whatever lastBalance is.
verifyAgainstAnyBalance(transaction, lastBal) ==
  IF Truthy(transaction.Balance)
  THEN LET currentBalance == parseFloat(transaction.Balance)
           balanceDifference == NumSub(currentBalance, Num(lastBal))
       IN IF NumLt(balanceDifference, Num(0))
          THEN VerifyWithdrawal(transaction, toFixed2(NumAbs(balanceDifference)))
          ELSE IF NumGt(balanceDifference, Num(0))
          THEN VerifyDeposit(transaction, toFixed2(balanceDifference))
          ELSE transaction
  ELSE transaction

\* lastBal is a number of cents (it is only ever 0 or a parsed amount).
verifyTransactionAmounts(transaction, lastBal) ==
  IF Truthy(transaction.Balance) /\ lastBal > 0
  THEN LET currentBalance == parseFloat(transaction.Balance)
           balanceDifference == NumSub(currentBalance, Num(lastBal))
       IN IF NumLt(balanceDifference, Num(0))
          THEN VerifyWithdrawal(transaction, toFixed2(NumAbs(balanceDifference)))
          ELSE IF NumGt(balanceDifference, Num(0))
          THEN VerifyDeposit(transaction, toFixed2(balanceDifference))
          ELSE transaction
  ELSE transaction

----------------------------------------------------------------------------
(* processAmounts *)

\* The withdrawal / deposit indicators of the line (lines 410-429).
LineIsWithdrawal(line) ==
  \/ Includes(line, "TO:")
  \/ (Includes(line, "TRANSFER") /\ ~Includes(line, "FROM:") /\ ~Includes(line, "INCOMING"))
  \/ (Includes(line, "PAYMENT") /\ ~Includes(line, "INCOMING"))
  \/ Includes(line, "Debit Card")
  \/ Includes(line, "PURCHASE")
  \/ Includes(line, "ATM")
  \/ Includes(line, "WITHDRAWAL")

LineIsDeposit(line) ==
  \/ Includes(line, "FROM:")
  \/ Includes(line, "INCOMING")
  \/ Includes(line, "RECEIPT")
  \/ Includes(line, "SALARY")
  \/ Includes(line, "INTEREST")
  \/ Includes(line, "CREDIT")
  \/ Includes(line, "REFUND")

B2N(b) == IF b THEN 1 ELSE 0

\* F(v), with v worked out once: a local const of the code.
Bind(v, F(_)) == CHOOSE y \in {F(x) : x \in {v}} : TRUE

\* The scores over the description accumulated so far (lines 435-450).
withdrawalScore(fullDesc) ==
  B2N(UpperIncludes(fullDesc, "TO:"))
  + B2N(UpperIncludes(fullDesc, "TRANSFER") /\ ~UpperIncludes(fullDesc, "FROM:"))
  + B2N(UpperIncludes(fullDesc, "PAYMENT") /\ ~UpperIncludes(fullDesc, "INCOMING"))
  + B2N(UpperIncludes(fullDesc, "DEBIT"))

depositScore(fullDesc) ==
  B2N(UpperIncludes(fullDesc, "FROM:"))
  + B2N(UpperIncludes(fullDesc, "INCOMING"))
  + B2N(UpperIncludes(fullDesc, "RECEIPT"))
  + B2N(UpperIncludes(fullDesc, "SALARY"))
  + B2N(UpperIncludes(fullDesc, "CREDIT"))

\* isWithdrawal / isDeposit after the conflict resolution of lines 433-462.
Direction(transaction, line) ==
  LET w0 == LineIsWithdrawal(line)
      d0 == LineIsDeposit(line)
      ws == withdrawalScore(transaction.Description)
      ds == depositScore(transaction.Description)
  IN IF w0 /\ d0
     THEN IF ws > ds THEN [isWithdrawal |-> TRUE, isDeposit |-> FALSE]
          ELSE IF ds > ws THEN [isWithdrawal |-> FALSE, isDeposit |-> TRUE]
          ELSE [isWithdrawal |-> TRUE, isDeposit |-> TRUE]
     ELSE [isWithdrawal |-> w0, isDeposit |-> d0]

\* Variant: a single amount follows the direction even on a line with a date.
AssignOneByDirection(transaction, line, amounts, dir) ==
  IF dir.isWithdrawal THEN [transaction EXCEPT !.Withdrawal = amounts[1]]
  ELSE IF dir.isDeposit THEN [transaction EXCEPT !.Deposit = amounts[1]]
  ELSE [transaction EXCEPT !.Balance = amounts[1]]

\* amounts.length === 1 (lines 469-483)
AssignOne(transaction, line, amounts, dir) ==
  IF HasDate(line) THEN [transaction EXCEPT !.Balance = amounts[1]]
  ELSE IF dir.isWithdrawal THEN [transaction EXCEPT !.Withdrawal = amounts[1]]
  ELSE IF dir.isDeposit THEN [transaction EXCEPT !.Deposit = amounts[1]]
  ELSE [transaction EXCEPT !.Balance = amounts[1]]

\* amounts.length === 2 (lines 484-522)
AssignTwo(transaction, amounts, dir, lastBal) ==
  IF dir.isWithdrawal
  THEN [transaction EXCEPT !.Withdrawal = amounts[1], !.Balance = amounts[2]]
  ELSE IF dir.isDeposit
  THEN [transaction EXCEPT !.Deposit = amounts[1], !.Balance = amounts[2]]
  ELSE LET balanceAmount == parseFloat(amounts[2])
       IN IF lastBal > 0 /\ NumLt(balanceAmount, Num(lastBal))
          THEN [transaction EXCEPT !.Withdrawal = amounts[1], !.Balance = amounts[2]]
          ELSE IF lastBal > 0 /\ NumGt(balanceAmount, Num(lastBal))
          THEN [transaction EXCEPT !.Deposit = amounts[1], !.Balance = amounts[2]]
          ELSE IF \/ Includes(transaction.Description, "TO:")
                  \/ Includes(transaction.Description, "PAYMENT")
                  \/ Includes(transaction.Description, "Debit Card")
          THEN [transaction EXCEPT !.Balance = amounts[2], !.Withdrawal = amounts[1]]
          ELSE [transaction EXCEPT !.Balance = amounts[2], !.Deposit = amounts[1]]

\* Variant: three or more amounts are assigned whatever the draft already holds.
AssignManyOverwrites(transaction, line, amounts, dir) ==
  LET last == amounts[Len(amounts)]
  IN IF dir.isWithdrawal
     THEN [transaction EXCEPT !.Withdrawal = amounts[1], !.Balance = last]
     ELSE IF dir.isDeposit
     THEN [transaction EXCEPT !.Deposit = amounts[1], !.Balance = last]
     ELSE [transaction EXCEPT !.Balance = last]

\* amounts.length >= 3 (lines 523-553)
AssignMany(transaction, line, amounts, dir) ==
  LET last == amounts[Len(amounts)]
  IN IF ~Truthy(transaction.Withdrawal) /\ ~Truthy(transaction.Deposit)
     THEN IF dir.isWithdrawal
          THEN [transaction EXCEPT !.Withdrawal = amounts[1], !.Balance = last]
          ELSE IF dir.isDeposit
          THEN [transaction EXCEPT !.Deposit = amounts[1], !.Balance = last]
          ELSE IF NumGt(parseFloat(amounts[1]), Num(0))
          THEN IF Includes(line, "(-)")
               THEN [transaction EXCEPT !.Withdrawal = amounts[1], !.Balance = last]
               ELSE [transaction EXCEPT !.Deposit = amounts[1], !.Balance = last]
          ELSE [transaction EXCEPT !.Balance = last]
     ELSE [transaction EXCEPT !.Balance = last]

\* Variant: no final check.
FinalCheckKeepsBoth(transaction, dir) == transaction

\* The final check (lines 555-563).
FinalCheck(transaction, dir) ==
  IF Truthy(transaction.Withdrawal) /\ Truthy(transaction.Deposit)
  THEN IF dir.isWithdrawal /\ ~dir.isDeposit THEN [transaction EXCEPT !.Deposit = EmptyStr]
       ELSE IF dir.isDeposit /\ ~dir.isWithdrawal THEN [transaction EXCEPT !.Withdrawal = EmptyStr]
       ELSE transaction
  ELSE transaction

processAmounts(transaction, line, amounts, lastBal) ==
  LET dir == Direction(transaction, line)
      assigned ==
        IF Len(amounts) = 1 THEN AssignOne(transaction, line, amounts, dir)
        ELSE IF Len(amounts) = 2 THEN AssignTwo(transaction, amounts, dir, lastBal)
        ELSE IF Len(amounts) >= 3 THEN AssignMany(transaction, line, amounts, dir)
        ELSE transaction
  IN FinalCheck(assigned, dir)

----------------------------------------------------------------------------
(* processDBSStatementData: the lines it may read *)

DBSLines ==
  { <<W("Transaction"), W("Details")>>,
    <<W("Account"), W("No."), W("123-456-7")>>,
    <<W("Balance"), W("Brought"), W("Forward"), W("SGD"), AC(100000)>>,
    <<W("CURRENCY:"), W("SGD")>>,
    <<W("Total")>>,
    <<Dt("01/02/2024"), W("FAST"), W("PAYMENT"), W("TO:"), W("JOHN"), W("DOE"), A(10000), A(90000)>>,
    <<Dt("02/02/2024"), W("SALARY"), W("FROM:"), W("ACME"), W("CORP"), A(500000), A(590000)>>,
    <<Dt("03/02/2024"), W("MISC")>>,
    <<Dt("04/02/2024"), W("TRANSFER"), A(90000)>>,
    <<Dt("05/02/2024"), W("MISC"), A(10000), A(90000)>>,
    <<W("JOHN"), W("DOE")>>,
    <<W("FROM:"), W("ACME"), A(20000)>>,
    <<W("TO:"), W("JOHN"), A(5000)>>,
    <<W("REF"), A(10000), A(90000)>>,
    <<W("TO:"), W("FROM:"), A(3000)>>,
    <<W("REF"), A(10000), A(20000), A(90000)>> }

\* /Account No\.\s+(\d+-\d+-\d+)/
IsAccountNumber(tok) == tok.k = "w" /\ tok.s \in {"123-456-7", "765-432-1"}
AccountAt(line, n) ==
  MatchAt(line, n, <<"Account", "No.">>, FALSE) /\ n + 2 <= Len(line) /\ IsAccountNumber(line[n + 2])
AccountOf(line, account) ==
  IF /\ Includes(line, "Account No.")
        /\ \E n \in 1..Len(line) : AccountAt(line, n)
  THEN line[(CHOOSE n \in 1..Len(line) :
               AccountAt(line, n) /\ \A m \in 1..(n - 1) : ~AccountAt(line, m)) + 2]
  ELSE account

\* line.match(/SGD\s+([\d,]+\.\d{2})/)
HasSGDAmount(line) == \E n \in 1..(Len(line) - 1) : line[n] = W("SGD") /\ line[n + 1].k = "a"
SGDAmount(line) ==
  line[(CHOOSE n \in 1..(Len(line) - 1) :
          /\ line[n] = W("SGD") /\ line[n + 1].k = "a"
          /\ \A m \in 1..(n - 1) : ~(line[m] = W("SGD") /\ line[m + 1].k = "a")) + 1]

IsSectionStart(line) ==
  \/ Includes(line, "Transaction Details")
  \/ /\ Includes(line, "Date") /\ Includes(line, "Description")
     /\ Includes(line, "Withdrawal") /\ Includes(line, "Deposit") /\ Includes(line, "Balance")

IsSectionEnd(line) == Includes(line, "Total") \/ Includes(line, "End of Statement")

\* Further lines of a statement text: a second account, and a line that has
\* both a date and the word Total.
DBSPageLines ==
  { <<W("Account"), W("No."), W("765-432-1")>>,
    <<Dt("06/02/2024"), W("Total"), A(10000), A(90000)>> }

\* What the tests of lines 212-288 find in a line.  The lines are fixed, so the
\* tests are evaluated once per line.
DBSShape(line) ==
  [start |-> IsSectionStart(line),
   bbf |-> Includes(line, "Balance Brought Forward"),
   skip |-> Includes(line, "CURRENCY:") \/ Includes(line, "Account Summary"),
   end |-> IsSectionEnd(line),
   date |-> HasDate(line)]

DBSShapes == [line \in DBSLines \cup DBSPageLines |-> DBSShape(line)]

\* Variant: the date anchor is tested before the section gate.
DBSClassDateFirst(line, gate, draftOpen) ==
  LET shape == DBSShapes[line]
  IN IF shape.start THEN "start"
     ELSE IF shape.date THEN "date"
     ELSE IF ~gate THEN "outside"
     ELSE IF shape.bbf THEN "bbf"
     ELSE IF shape.skip THEN "skip"
     ELSE IF shape.end THEN "end"
     ELSE IF draftOpen THEN "cont"
     ELSE "none"

\* Variant: inside the section the date anchor is tested before the section end.
DBSClassDateBeforeEnd(line, gate, draftOpen) ==
  LET shape == DBSShapes[line]
  IN IF shape.start THEN "start"
     ELSE IF ~gate THEN "outside"
     ELSE IF shape.bbf THEN "bbf"
     ELSE IF shape.skip THEN "skip"
     ELSE IF shape.date THEN "date"
     ELSE IF shape.end THEN "end"
     ELSE IF draftOpen THEN "cont"
     ELSE "none"

\* The branch of the loop body a line takes (lines 212-373), in the order the
\* code tests them.
DBSClass(line, gate, draftOpen) ==
  LET shape == DBSShapes[line]
  IN IF shape.start THEN "start"
     ELSE IF ~gate THEN "outside"
     ELSE IF shape.bbf THEN "bbf"
     ELSE IF shape.skip THEN "skip"
     ELSE IF shape.end THEN "end"
     ELSE IF shape.date THEN "date"
     ELSE IF draftOpen THEN "cont"
     ELSE "none"

StartsRecipientInfo(remainingText) ==
  \/ Includes(remainingText, "Advice")
  \/ Includes(remainingText, "FAST")
  \/ Includes(remainingText, "TRANSFER")
  \/ Includes(remainingText, "Debit Card")
  \/ Includes(remainingText, "GIRO")
  \/ Includes(remainingText, "Salary")

RECURSIVE Join(_)
Join(lines) == IF lines = <<>> THEN <<>> ELSE Head(lines) \o Join(Tail(lines))

\* Lines 253-256 / 291-294 / 378-381
WithRecipientInfo(transaction, recLines) ==
  IF Len(recLines) > 0 THEN [transaction EXCEPT !.RecipientInfo = Join(recLines)]
  ELSE transaction

\* Variant: the running balance is never taken from a finalized draft.
BalanceNotStored(transaction, lastBal) == lastBal

\* Lines 261-266 / 299-304
BalanceAfter(transaction, lastBal) ==
  IF Truthy(transaction.Balance) THEN parseFloat(transaction.Balance).v ELSE lastBal

\* Variant: the draft is pushed as the keyword rules left it.
FinalizedUnverified(transaction, recLines, lastBal) ==
  WithRecipientInfo(transaction, recLines)

\* What is pushed when a draft is closed by a date anchor or a section end.
Finalized(transaction, recLines, lastBal) ==
  verifyTransactionAmounts(WithRecipientInfo(transaction, recLines), lastBal)

\* Variant: the new draft is given no account.
NewDBSTransactionNoAccount(account, date, remainingText) ==
  [Account |-> EmptyStr, Date |-> date, Description |-> remainingText,
   Withdrawal |-> EmptyStr, Deposit |-> EmptyStr, Balance |-> EmptyStr,
   RecipientInfo |-> <<>>, Category |-> ""]

NewDBSTransaction(account, date, remainingText) ==
  [Account |-> account, Date |-> date, Description |-> remainingText,
   Withdrawal |-> EmptyStr, Deposit |-> EmptyStr, Balance |-> EmptyStr,
   RecipientInfo |-> <<>>, Category |-> ""]

----------------------------------------------------------------------------
(* History kept beside the program state, for stating properties *)

NoSet == [set |-> FALSE, bothIndicated |-> FALSE, scoresEqual |-> FALSE,
          isWithdrawal |-> FALSE, isDeposit |-> FALSE]

\* Does processAmounts write Withdrawal or Deposit on this line?  Decided on a
\* copy of the draft whose set amounts are replaced by a marker value.
Marked(transaction) ==
  [transaction EXCEPT
     !.Withdrawal = IF Truthy(transaction.Withdrawal) THEN A(-1) ELSE EmptyStr,
     !.Deposit = IF Truthy(transaction.Deposit) THEN A(-1) ELSE EmptyStr]

AssignsAmount(transaction, line, amounts, lastBal) ==
  LET dir == Direction(transaction, line)
      m == Marked(transaction)
      r == IF Len(amounts) = 1 THEN AssignOne(m, line, amounts, dir)
           ELSE IF Len(amounts) = 2 THEN AssignTwo(m, amounts, dir, lastBal)
           ELSE AssignMany(m, line, amounts, dir)
  IN r.Withdrawal # m.Withdrawal \/ r.Deposit # m.Deposit

SetRecord(transaction, line) ==
  [set |-> TRUE,
   bothIndicated |-> LineIsWithdrawal(line) /\ LineIsDeposit(line),
   scoresEqual |-> withdrawalScore(transaction.Description) = depositScore(transaction.Description),
   isWithdrawal |-> Direction(transaction, line).isWithdrawal,
   isDeposit |-> Direction(transaction, line).isDeposit]

AfterAmounts(dh, transaction, line, amounts, lastBal) ==
  IF AssignsAmount(transaction, line, amounts, lastBal)
  THEN [dh EXCEPT !.lastSet = SetRecord(transaction, line)]
  ELSE dh

NoDraftHist == [anchor |-> -1, lastSet |-> NoSet, bbfWhileOpen |-> FALSE]
NewDraftHist(n) == [anchor |-> n, lastSet |-> NoSet, bbfWhileOpen |-> FALSE]

Closed(dh, how, pre, lastBal) ==
  [anchor |-> dh.anchor, lastSet |-> dh.lastSet, bbfWhileOpen |-> dh.bbfWhileOpen,
   closedBy |-> how, pre |-> pre, against |-> lastBal]

----------------------------------------------------------------------------
(* processDBSStatementData: one action per branch of the loop body *)

DraftOpen == currentTransaction # NoTransaction

\* What a line read outside the section would have been inside it.
OutsideKind(isDate, hasAmount) ==
  IF isDate THEN "outside:date" ELSE IF hasAmount THEN "outside:amount" ELSE "outside"

Read(line) ==
  /\ pc = "scan"
  /\ i < MaxLines
  /\ line \notin ruledOut

DBSRead(line, class) ==
  /\ bank = "dbs"
  /\ Read(line)
  /\ DBSClass(line, isTransactionSection, DraftOpen) = class
  /\ i' = i + 1
  /\ lastStep' = IF class = "outside" THEN OutsideKind(HasDate(line), DBSAmounts(line) # <<>>)
             ELSE class
  /\ currentAccount' = AccountOf(line, currentAccount)
  /\ UNCHANGED <<bank, pc, ruledOut, citiVars, fnVars>>

\* Variant: a section start read while a draft is open is taken into the draft
\* like a continuation line.
DBSSectionStartExtends(line) ==
  /\ DBSRead(line, "start")
  /\ isTransactionSection' = TRUE
  /\ IF DraftOpen
     THEN /\ multiLineDescription' = multiLineDescription \o line
          /\ currentTransaction' =
               [currentTransaction EXCEPT !.Description = multiLineDescription \o line]
          /\ recipientLines' = Append(recipientLines, line)
     ELSE UNCHANGED <<currentTransaction, multiLineDescription, recipientLines>>
  /\ UNCHANGED <<lastBalance, isCollectingRecipientInfo, transactions, hist, draftHist, opened,
                 bbfAt, bbfAmt>>

\* Lines 212-224
DBSSectionStart(line) ==
  /\ DBSRead(line, "start")
  /\ isTransactionSection' = TRUE
  /\ UNCHANGED <<currentTransaction, multiLineDescription, lastBalance, recipientLines,
                 isCollectingRecipientInfo, transactions, hist, draftHist, opened, bbfAt, bbfAmt>>

\* Line 227
DBSOutsideSection(line) ==
  /\ DBSRead(line, "outside")
  /\ UNCHANGED <<isTransactionSection, currentTransaction, multiLineDescription, lastBalance,
                 recipientLines, isCollectingRecipientInfo, transactions, hist, draftHist,
                 opened, bbfAt, bbfAmt>>

\* Lines 229-238
DBSBalanceBroughtForward(line) ==
  /\ DBSRead(line, "bbf")
  /\ lastBalance' = IF HasSGDAmount(line) THEN parseFloat(SGDAmount(line)).v ELSE lastBalance
  /\ bbfAt' = IF HasSGDAmount(line) THEN Len(transactions) ELSE bbfAt
  /\ bbfAmt' = IF HasSGDAmount(line) THEN SGDAmount(line).c ELSE bbfAmt
  /\ draftHist' = IF DraftOpen /\ HasSGDAmount(line)
                  THEN [draftHist EXCEPT !.bbfWhileOpen = TRUE] ELSE draftHist
  /\ UNCHANGED <<isTransactionSection, currentTransaction, multiLineDescription,
                 recipientLines, isCollectingRecipientInfo, transactions, hist, opened>>

\* Lines 240-244
DBSSkipHeader(line) ==
  /\ DBSRead(line, "skip")
  /\ UNCHANGED <<isTransactionSection, currentTransaction, multiLineDescription, lastBalance,
                 recipientLines, isCollectingRecipientInfo, transactions, hist, draftHist,
                 opened, bbfAt, bbfAmt>>

\* Variant: a section end that pushes the draft and leaves it open.
DBSSectionEndKeepsDraft(line) ==
  /\ DBSRead(line, "end")
  /\ isTransactionSection' = FALSE
  /\ IF DraftOpen
     THEN LET done == Finalized(currentTransaction, recipientLines, lastBalance)
          IN /\ lastBalance' = BalanceAfter(done, lastBalance)
             /\ transactions' = Append(transactions, done)
             /\ hist' = Append(hist, Closed(draftHist, "end",
                                 WithRecipientInfo(currentTransaction, recipientLines), lastBalance))
             /\ UNCHANGED <<currentTransaction, multiLineDescription, recipientLines,
                            isCollectingRecipientInfo, draftHist>>
     ELSE UNCHANGED <<currentTransaction, multiLineDescription, lastBalance, recipientLines,
                      isCollectingRecipientInfo, transactions, hist, draftHist>>
  /\ UNCHANGED <<opened, bbfAt, bbfAmt>>

\* Lines 246-276
DBSSectionEnd(line) ==
  /\ DBSRead(line, "end")
  /\ isTransactionSection' = FALSE
  /\ IF DraftOpen
     THEN LET done == Finalized(currentTransaction, recipientLines, lastBalance)
          IN /\ lastBalance' = BalanceAfter(done, lastBalance)
             /\ transactions' = Append(transactions, done)
             /\ hist' = Append(hist, Closed(draftHist, "end",
                                 WithRecipientInfo(currentTransaction, recipientLines), lastBalance))
             /\ currentTransaction' = NoTransaction
             /\ multiLineDescription' = <<>>
             /\ recipientLines' = <<>>
             /\ isCollectingRecipientInfo' = FALSE
             /\ draftHist' = NoDraftHist
     ELSE UNCHANGED <<currentTransaction, multiLineDescription, lastBalance, recipientLines,
                      isCollectingRecipientInfo, transactions, hist, draftHist>>
  /\ UNCHANGED <<opened, bbfAt, bbfAmt>>

\* Variant: the amounts of the date line are assigned against the running
\* balance as it was before the previous draft was closed.
DBSDateAnchorBeforeClose(line) ==
  /\ DBSRead(line, "date")
  /\ LET done == Finalized(currentTransaction, recipientLines, lastBalance)
         lastBal == IF DraftOpen THEN BalanceAfter(done, lastBalance) ELSE lastBalance
         date == line[FirstDateIdx(line)]
         remainingText == AfterDate(line)
         fresh == NewDBSTransaction(currentAccount', date, remainingText)
         amounts == DBSAmounts(line)
         hasAmounts == Len(amounts) > 0
         collecting == StartsRecipientInfo(remainingText)
     IN /\ IF DraftOpen
           THEN /\ transactions' = Append(transactions, done)
                /\ hist' = Append(hist, Closed(draftHist, "anchor",
                                    WithRecipientInfo(currentTransaction, recipientLines), lastBalance))
           ELSE UNCHANGED <<transactions, hist>>
        /\ lastBalance' = lastBal
        /\ multiLineDescription' = remainingText
        /\ recipientLines' = IF collecting THEN <<remainingText>> ELSE <<>>
        /\ currentTransaction' = IF hasAmounts THEN processAmounts(fresh, line, amounts, lastBalance)
                                 ELSE fresh
        /\ isCollectingRecipientInfo' = IF hasAmounts THEN FALSE ELSE collecting
        /\ draftHist' = IF hasAmounts
                        THEN AfterAmounts(NewDraftHist(i), fresh, line, amounts, lastBalance)
                        ELSE NewDraftHist(i)
        /\ opened' = Append(opened, [at |-> i, date |-> fresh.Date])
  /\ UNCHANGED <<isTransactionSection, bbfAt, bbfAmt>>

\* Lines 288-349
DBSDateAnchor(line) ==
  /\ DBSRead(line, "date")
  /\ LET done == Finalized(currentTransaction, recipientLines, lastBalance)
         lastBal == IF DraftOpen THEN BalanceAfter(done, lastBalance) ELSE lastBalance
         date == line[FirstDateIdx(line)]
         remainingText == AfterDate(line)
         fresh == NewDBSTransaction(currentAccount', date, remainingText)
         amounts == DBSAmounts(line)
         hasAmounts == Len(amounts) > 0
         collecting == StartsRecipientInfo(remainingText)
     IN /\ IF DraftOpen
           THEN /\ transactions' = Append(transactions, done)
                /\ hist' = Append(hist, Closed(draftHist, "anchor",
                                    WithRecipientInfo(currentTransaction, recipientLines), lastBalance))
           ELSE UNCHANGED <<transactions, hist>>
        /\ lastBalance' = lastBal
        /\ multiLineDescription' = remainingText
        /\ recipientLines' = IF collecting THEN <<remainingText>> ELSE <<>>
        /\ currentTransaction' = IF hasAmounts THEN processAmounts(fresh, line, amounts, lastBal)
                                 ELSE fresh
        /\ isCollectingRecipientInfo' = IF hasAmounts THEN FALSE ELSE collecting
        /\ draftHist' = IF hasAmounts
                        THEN AfterAmounts(NewDraftHist(i), fresh, line, amounts, lastBal)
                        ELSE NewDraftHist(i)
        /\ opened' = Append(opened, [at |-> i, date |-> fresh.Date])
  /\ UNCHANGED <<isTransactionSection, bbfAt, bbfAmt>>

\* Lines 350-373
DBSContinuation(line) ==
  /\ DBSRead(line, "cont")
  /\ LET amounts == DBSAmounts(line)
     IN IF Len(amounts) > 0
        THEN /\ currentTransaction' = processAmounts(currentTransaction, line, amounts, lastBalance)
             /\ isCollectingRecipientInfo' = FALSE
             /\ draftHist' = AfterAmounts(draftHist, currentTransaction, line, amounts, lastBalance)
             /\ UNCHANGED <<multiLineDescription, recipientLines>>
        ELSE /\ multiLineDescription' = multiLineDescription \o line
             /\ currentTransaction' =
                  [currentTransaction EXCEPT !.Description = multiLineDescription \o line]
             \* both branches of lines 365-371 push the line: a line of the
             \* filtered input never matches /^\s*$/
             /\ recipientLines' = Append(recipientLines, line)
             /\ UNCHANGED <<isCollectingRecipientInfo, draftHist>>
  /\ UNCHANGED <<isTransactionSection, lastBalance, transactions, hist, opened, bbfAt, bbfAmt>>

\* A line inside the section that is no date anchor, with no draft open:
\* neither branch of lines 288-373 is taken.
DBSIgnored(line) ==
  /\ DBSRead(line, "none")
  /\ UNCHANGED <<isTransactionSection, currentTransaction, multiLineDescription, lastBalance,
                 recipientLines, isCollectingRecipientInfo, transactions, hist, draftHist,
                 opened, bbfAt, bbfAmt>>

----------------------------------------------------------------------------
(* cleanupDescription *)

IsHole(tok) == tok.k = "a" \/ (tok.k = "w" /\ tok.s \in {"(-)", "(+)"})

RECURSIVE DropHoles(_)
DropHoles(text) ==
  IF text = <<>> THEN <<>>
  ELSE IF IsHole(Head(text)) THEN DropHoles(Tail(text))
  ELSE <<Head(text)>> \o DropHoles(Tail(text))

\* Lines 634-642: description.split(/\s+/) yields an empty part where a removed
\* amount left the string starting or ending with a blank.
SkipAdvice(original, description) ==
  LET lead == B2N(original # <<>> /\ IsHole(original[1]))
      trail == B2N(original # <<>> /\ IsHole(original[Len(original)]))
      parts == Len(description) + lead + trail
  IN IF Includes(description, "Advice") /\ parts > 2
     THEN SubSeq(description, 3 - lead, Len(description))
     ELSE description

\* Lines 1001-1024
FallbackCategory(description, transaction) ==
  IF UpperIncludes(description, "ATM") \/ UpperIncludes(description, "WITHDRAWAL")
  THEN "Cash Withdrawal"
  ELSE IF \/ UpperIncludes(description, "FEE") \/ UpperIncludes(description, "CHARGE")
          \/ UpperIncludes(description, "SERVICE CHARGE")
  THEN "Fees"
  ELSE IF UpperIncludes(description, "INTEREST") THEN "Interest"
  ELSE IF UpperIncludes(description, "DIVIDEND") THEN "Dividend"
  ELSE IF UpperIncludes(description, "TAX") THEN "Tax"
  ELSE IF Truthy(transaction.Deposit) THEN "Income"
  ELSE IF Truthy(transaction.Withdrawal) THEN "Expense"
  ELSE ""

\* Words of the shapes the patterns of lines 660-755 look for.
IsDayMonth(tok) == tok.k = "w" /\ tok.s \in {"14JAN"}                \* \d{2}[A-Z]{3}
IsCardNumber(tok) == tok.k = "w" /\ tok.s \in {"1234-5678-9012-3456"}  \* \d{4}-\d{4}-\d{4}-\d{4}
IsThreeCapitals(tok) ==                                               \* [A-Z]{3}
  tok.k = "w" /\ tok.s \in {"SGP", "REF", "DOE", "USD", "SGD", "ALL", "FOR"}
StartsWithDigits(tok) ==
  tok.k = "a" \/ (tok.k = "w" /\ tok.s \in {"12345", "123-456-7", "14JAN", "1234-5678-9012-3456"})

\* The digits /(\d+)/ takes from the front of a token: of an amount, what
\* stands before its decimal point or its thousands separator.
LeadingDigits(tok) ==
  IF tok.k = "a"
  THEN [k |-> "n", s |-> "", c |-> IF tok.f = "," THEN tok.c \div 100000 ELSE tok.c \div 100,
        f |-> ""]
  ELSE IF tok.s = "123-456-7" THEN W("123")
  ELSE IF tok.s = "14JAN" THEN W("14")
  ELSE IF tok.s = "1234-5678-9012-3456" THEN W("1234")
  ELSE tok

First(S) == CHOOSE n \in S : \A m \in S : n <= m

\* recipientInfo.match(/<kw>\s+([^\n]+)/): the places where the keyword is
\* followed by something.
FollowedAt(text, kw) == {n \in 1..(Len(text) - 1) : text[n].k = "w" /\ kw \in Subs(text[n].s)}
Rest(text, kw) == SubSeq(text, First(FollowedAt(text, kw)) + 1, Len(text))

\* recipientInfo.match(/TRANSFER\s+(\d+)/)
TransferAt(text) == {n \in FollowedAt(text, "TRANSFER") : StartsWithDigits(text[n + 1])}
TransferInfo(text) ==
  IF TransferAt(text) # {}
  THEN <<W("TRANSFER:"), LeadingDigits(text[First(TransferAt(text)) + 1])>>
  ELSE <<>>

\* recipientInfo.match(/REF\s+([^\s]+)/)
RefInfo(text) ==
  IF FollowedAt(text, "REF") # {}
  THEN <<W("REF:"), text[First(FollowedAt(text, "REF")) + 1]>>
  ELSE <<>>

Piped(description, info) == IF info = <<>> THEN description ELSE description \o <<W("|")>> \o info

HasAny(text, kws) == \E kw \in kws : UpperIncludes(text, kw)

\* Lines 673-706 and 711-744
MerchantCategory(merchant) ==
  IF HasAny(merchant, {"RESTAURANT", "CAFE", "FOOD", "BAKERY", "COFFEE"}) THEN "Dining"
  ELSE IF HasAny(merchant, {"MARKET", "SUPERMARKET", "GROCERY", "NTUC", "FAIRPRICE", "COLD STORAGE"})
  THEN "Groceries"
  ELSE IF HasAny(merchant, {"TRANSPORT", "GRAB", "TAXI", "MRT", "BUS", "GOJEK"}) THEN "Transport"
  ELSE IF HasAny(merchant, {"AMAZON", "LAZADA", "SHOPEE", "QOOLMART"}) THEN "Shopping"
  ELSE "Debit Card"

\* Lines 653-760: a Debit Card transaction
DebitCardInfo(recipientInfo, description) ==
  LET at == First({n \in 1..Len(recipientInfo) :
                     MatchAt(recipientInfo, n, <<"Debit", "Card", "Transaction">>, FALSE)}) + 3
      \* (.+?) takes the first word and stops before a day-month or a card number
      stops == {n \in (at + 1)..Len(recipientInfo) :
                  IsDayMonth(recipientInfo[n]) \/ IsCardNumber(recipientInfo[n])}
      merchantInfo == IF at > Len(recipientInfo) THEN <<>>
                      ELSE SubSeq(recipientInfo, at,
                                  IF stops = {} THEN Len(recipientInfo) ELSE First(stops) - 1)
      split == Len(merchantInfo) > 1 /\ IsThreeCapitals(merchantInfo[Len(merchantInfo)])
      name == IF split THEN SubSeq(merchantInfo, 1, Len(merchantInfo) - 1) ELSE merchantInfo
      withMerchant ==
        IF merchantInfo = <<>> THEN description
        ELSE IF split
        THEN description \o <<W("|"), W("MERCHANT:")>> \o name
               \o <<W("|"), W("LOCATION:"), merchantInfo[Len(merchantInfo)]>>
        ELSE description \o <<W("|"), W("MERCHANT:")>> \o merchantInfo
      cards == {n \in 1..Len(recipientInfo) : IsCardNumber(recipientInfo[n])}
      withCard == IF cards = {} THEN withMerchant
                  ELSE withMerchant \o <<W("|"), W("CARD:"), recipientInfo[First(cards)]>>
      tail == recipientInfo[Len(recipientInfo)]
      withDate == IF Len(recipientInfo) > 1 /\ IsDayMonth(tail)
                  THEN withCard \o <<W("|"), W("TRANSACTION"), W("DATE:"), tail>>
                  ELSE withCard
  IN [description |-> withDate,
      category |-> IF merchantInfo = <<>> THEN "Debit Card" ELSE Bind(name, MerchantCategory)]

\* Lines 779-795
ToCategory(recipient) ==
  IF HasAny(recipient, {"RENT", "PROPERTY", "CONDO", "APARTMENT"}) THEN "Housing"
  ELSE IF HasAny(recipient, {"INSURANCE"}) THEN "Insurance"
  ELSE IF HasAny(recipient, {"INVESTMENT", "SECURITIES", "TRADING"}) THEN "Investment"
  ELSE "Transfer"

\* Lines 796-819
FromCategory(sender) ==
  IF HasAny(sender, {"SALARY", "PAYROLL", "WAGE", "COMPENSATION"}) THEN "Salary"
  ELSE IF HasAny(sender, {"DIVIDEND", "INTEREST", "INVESTMENT"}) THEN "Investment Income"
  ELSE "Income"

\* Lines 857-872
BillCategory(recipient) ==
  IF HasAny(recipient, {"BILL", "UTILITY", "POWER", "WATER", "GAS", "ELECTRICITY"})
  THEN "Bills" ELSE "Transfer"

\* Variant: a PAYNOW / FAST transaction is annotated and given no category.
FastInfoUncategorized(recipientInfo, description) ==
  LET to == FollowedAt(recipientInfo, "TO:") # {}
      from == FollowedAt(recipientInfo, "FROM:") # {}
      recipientName == IF to THEN <<W("TO:")>> \o Rest(recipientInfo, "TO:")
                       ELSE IF from THEN <<W("FROM:")>> \o Rest(recipientInfo, "FROM:")
                       ELSE <<>>
  IN [description |-> Piped(Piped(Piped(description, recipientName), TransferInfo(recipientInfo)),
                            RefInfo(recipientInfo)),
      category |-> ""]

\* Lines 762-840: a PAYNOW / FAST transaction
FastInfo(recipientInfo, description) ==
  LET to == FollowedAt(recipientInfo, "TO:") # {}
      from == FollowedAt(recipientInfo, "FROM:") # {}
      recipientName == IF to THEN <<W("TO:")>> \o Rest(recipientInfo, "TO:")
                       ELSE IF from THEN <<W("FROM:")>> \o Rest(recipientInfo, "FROM:")
                       ELSE <<>>
      category ==
        IF to THEN Bind(Rest(recipientInfo, "TO:"), ToCategory)
        ELSE IF from THEN Bind(Rest(recipientInfo, "FROM:"), FromCategory)
        ELSE "Transfer"
  IN [description |-> Piped(Piped(Piped(description, recipientName), TransferInfo(recipientInfo)),
                            RefInfo(recipientInfo)),
      category |-> category]

\* Lines 841-997: any other transaction.  RecipientInfo is recipientLines.join(" ")
\* of lines that hold no line break, so that recipientInfo.split("\n") is the
\* one line and the second-line and third-line parts (lines 920-975) never run.
OtherInfo(transaction, recipientInfo, description) ==
  LET to == FollowedAt(recipientInfo, "TO:") # {}
      from == FollowedAt(recipientInfo, "FROM:") # {}
      toFromInfo == IF to THEN <<W("TO:")>> \o Rest(recipientInfo, "TO:")
                    ELSE IF from THEN <<W("FROM:")>> \o Rest(recipientInfo, "FROM:")
                    ELSE <<>>
      category0 ==
        IF to THEN Bind(Rest(recipientInfo, "TO:"), BillCategory)
        ELSE IF from THEN "Income"
        ELSE ""
      giro == Includes(recipientInfo, "GIRO")
      salary == Includes(recipientInfo, "Salary")
      description1 == IF giro THEN <<W("GIRO")>> ELSE IF salary THEN <<W("Salary")>> ELSE description
      category1 == IF salary THEN "Salary"
                   ELSE IF giro THEN (IF Truthy(transaction.Deposit) THEN "Income" ELSE "Bills")
                   ELSE category0
      ref == RefInfo(recipientInfo)
      transfer == TransferInfo(recipientInfo)
      refInfo == IF ref # <<>> /\ transfer # <<>> THEN ref \o <<W("|")>> \o transfer
                 ELSE IF ref # <<>> THEN ref
                 ELSE transfer
  IN [description |-> Piped(Piped(description1, toFromInfo), refInfo),
      category |-> category1]

\* Lines 647-999: the annotations and the category taken from RecipientInfo.
FromRecipientInfo(transaction, description) ==
  LET recipientInfo == transaction.RecipientInfo
  IN IF Includes(recipientInfo, "Debit Card Transaction")
     THEN DebitCardInfo(recipientInfo, description)
     ELSE IF Includes(recipientInfo, "PAYNOW") \/ Includes(recipientInfo, "FAST")
     THEN FastInfo(recipientInfo, description)
     ELSE OtherInfo(transaction, recipientInfo, description)

cleanupDescription(transaction) ==
  Bind(SkipAdvice(transaction.Description, DropHoles(transaction.Description)),
       LAMBDA cleaned :
         Bind(IF transaction.RecipientInfo # <<>>
              THEN FromRecipientInfo(transaction, cleaned)
              ELSE [description |-> cleaned, category |-> ""],
              LAMBDA r :
                [transaction EXCEPT
                   !.Description = r.description,
                   !.Category = IF r.category = ""
                                THEN FallbackCategory(r.description, transaction)
                                ELSE r.category]))

CleanAll(txs) ==
  Bind(txs, LAMBDA all : [n \in 1..Len(all) |-> cleanupDescription(all[n])])

----------------------------------------------------------------------------
(* processDBSStatementData: after the loop (lines 376-393) *)

DBSEndOfInput ==
  /\ bank = "dbs"
  /\ pc = "scan"
  /\ EofLine \notin ruledOut
  /\ pc' = "done"
  /\ IF DraftOpen
     THEN LET pre == WithRecipientInfo(currentTransaction, recipientLines)
          IN /\ transactions' = CleanAll(Append(transactions, verifyTransactionAmounts(pre, lastBalance)))
             /\ hist' = Append(hist, Closed(draftHist, "eof", pre, lastBalance))
     ELSE /\ transactions' = CleanAll(transactions)
          /\ UNCHANGED hist
  \* the draft, the gate and the running balance are locals that die with the call
  /\ lastStep' = "eof"
  /\ UNCHANGED <<bank, i, ruledOut, isTransactionSection, currentTransaction,
                 draftHist, opened, dbsVars, citiVars, fnVars>>

----------------------------------------------------------------------------
(* categorizeTransaction (Citi) *)

\* The keyword rules of lines 714-825, in the order they are tried.
CitiRules ==
  << [kws |-> {"RESTAURANT", "CAFE", "FOOD", "BAKERY", "COFFEE", "MCDONALD", "STARBUCKS",
               "DINING", "FOODPANDA", "FP*FOOD"}, category |-> "Dining"],
     [kws |-> {"MARKET", "SUPERMARKET", "GROCERY", "NTUC", "FAIRPRICE", "COLD STORAGE"},
      category |-> "Groceries"],
     [kws |-> {"TRANSPORT", "GRAB", "TAXI", "MRT", "BUS", "GOJEK", "UBER"},
      category |-> "Transport"],
     [kws |-> {"AMAZON", "LAZADA", "SHOPEE", "QOOLMART", "SHOPPING", "RETAIL", "SHOPBACK"},
      category |-> "Shopping"],
     [kws |-> {"BILL", "UTILITY", "POWER", "WATER", "GAS", "ELECTRICITY", "PHONE", "MOBILE",
               "INTERNET"}, category |-> "Bills"],
     [kws |-> {"INSURANCE"}, category |-> "Insurance"],
     [kws |-> {"RENT", "PROPERTY", "CONDO", "APARTMENT"}, category |-> "Housing"],
     [kws |-> {"ATM", "WITHDRAWAL"}, category |-> "Cash Withdrawal"],
     [kws |-> {"FEE", "CHARGE", "SERVICE CHARGE", "ANNUAL FEE", "MEMBERSHIP FEE"},
      category |-> "Fees"],
     [kws |-> {"PAYMENT", "BILL PAYMENT"}, category |-> "Bill Payment"],
     [kws |-> {"TRANSFER"}, category |-> "Transfer"],
     [kws |-> {"INTEREST"}, category |-> "Interest"],
     [kws |-> {"SALARY", "PAYROLL"}, category |-> "Salary"],
     [kws |-> {"REFUND", "REBATE"}, category |-> "Refund"],
     [kws |-> {"TRAVEL", "AIRLINE", "HOTEL", "KLOOK"}, category |-> "Travel"],
     [kws |-> {"SUBSCRIPTION", "NETFLIX", "SPOTIFY", "PRIME", "GOOGLE", "APPLE", "VPN"},
      category |-> "Subscriptions"] >>

RuleMatches(description, rule) == \E kw \in rule.kws : UpperIncludes(description, kw)

categorizeTransaction(transaction) ==
  LET hits == {n \in 1..Len(CitiRules) : RuleMatches(transaction.Description, CitiRules[n])}
      category ==
        IF hits # {} THEN CitiRules[CHOOSE n \in hits : \A m \in hits : n <= m].category
        ELSE IF Truthy(transaction.Debit) THEN "Expense"
        ELSE IF Truthy(transaction.Credit) THEN "Income"
        ELSE ""
  IN [transaction EXCEPT !.Category = category]

----------------------------------------------------------------------------
(* processCitiStatementData: the lines it may read *)

\* Leading date tokens: DD MMM (pattern 1), DD/MM (pattern 2), DD directly
\* followed by upper-case text (pattern 3), DD followed by a blank (pattern 4).
D1(day, mon) == [k |-> "d1", s |-> day, c |-> 0, f |-> mon]
D2(day, month) == [k |-> "d2", s |-> day, c |-> month, f |-> ""]
D3(day) == [k |-> "d3", s |-> day, c |-> 0, f |-> ""]
D4(day) == [k |-> "d4", s |-> day, c |-> 0, f |-> ""]
\* "January 15, 2024" after "Statement Date:"
Period(month, year) == [k |-> "period", s |-> month, c |-> 0, f |-> year]
\* sixteen digits
CardNo(digits) == [k |-> "card", s |-> digits, c |-> 0, f |-> ""]

\* new Date().getFullYear().toString(): the year the program runs in
CurrentYear == W("YYYY")

CitiLines ==
  { <<W("DATE"), W("DESCRIPTION"), W("AMOUNT")>>,
    <<W("TRANSACTIONS"), W("FOR")>>,
    <<W("ALL"), W("TRANSACTIONS")>>,
    <<W("Statement"), W("Date:"), Period("January", "2024")>>,
    <<W("SUB-TOTAL:"), A(2550)>>,
    <<W("BALANCE"), W("PREVIOUS"), W("STATEMENT"), A(50000)>>,
    <<D1("20", "DEC"), W("STARBUCKS"), A(1250)>>,
    <<D1("21", "DEC"), W("REBATE"), AP(500)>>,
    <<D1("22", "DEC"), W("GRAB")>>,
    <<D4("23"), W("7-ELEVEN"), A(300)>>,
    <<W("SINGAPORE"), W("SG")>>,
    <<AP(700)>>,
    <<A(900)>>,
    <<W("FOREIGN"), W("AMOUNT"), W("USD"), A(1000)>> }

\* [...line.matchAll(/\(?\d+,?\d*\.\d{2}\)?/g)]
CitiAmounts(line) == SelectToks(line, "a")

\* Lines 408-418
HasCardNo(line) == \E n \in 1..Len(line) : line[n].k = "card"
CitiAccountOf(line, account) ==
  IF HasCardNo(line)
  THEN line[CHOOSE n \in 1..Len(line) : line[n].k = "card" /\ \A m \in 1..(n - 1) : line[m].k # "card"]
  ELSE account

\* Lines 421-443: /Statement Date:?\s*([A-Za-z]+\s*\d{1,2},\s*\d{4})/i
PeriodAt(line, n) ==
  /\ n + 2 <= Len(line)
  /\ line[n].k = "w" /\ line[n].s \in {"Statement", "STATEMENT"}
  /\ line[n + 1].k = "w" /\ line[n + 1].s \in {"Date:", "DATE:", "Date", "DATE"}
  /\ line[n + 2].k = "period"
HasPeriod(line) ==
  /\ Includes(line, "Statement Date") \/ Includes(line, "STATEMENT DATE")
  /\ \E n \in 1..Len(line) : PeriodAt(line, n)
PeriodOf(line) ==
  line[(CHOOSE n \in 1..Len(line) : PeriodAt(line, n) /\ \A m \in 1..(n - 1) : ~PeriodAt(line, m)) + 2]
\* monthMatch[1].toUpperCase().substring(0, 3)
Upper3(month) ==
  CASE month = "January" -> "JAN"
    [] month = "December" -> "DEC"
    [] OTHER -> month

\* Lines 452-458
IsCardType(line) ==
  Includes(line, "CITI") /\ (Includes(line, "VISA") \/ Includes(line, "MASTERCARD"))

\* Lines 481-487
IsCitiSectionEnd(line) ==
  \/ Includes(line, "SUB-TOTAL:")
  \/ Includes(line, "GRAND TOTAL")
  \/ Includes(line, "TOTAL FOR")
  \/ Includes(line, "YOUR CITI THANK YOU POINTS")
  \/ line[1] = W("TOTAL:")
  \/ (Len(line) >= 2 /\ line[1] = W("TOTAL") /\ line[2] = W(":"))

\* Lines 502-505
IsCitiSkipped(line) ==
  Includes(line, "BALANCE PREVIOUS STATEMENT") \/ Includes(line, "PAYMENT-THANK YOU")

\* Lines 511-520: the four date patterns are anchored at the start of the line.
CitiDateMatch(line) == line[1].k \in {"d1", "d2", "d3", "d4"}

monthNames ==
  <<"JAN", "FEB", "MAR", "APR", "MAY", "JUN", "JUL", "AUG", "SEP", "OCT", "NOV", "DEC">>

\* Lines 536-574: dateStr as a list of words ("" is the empty list)
CitiDateStr(tok, month) ==
  IF tok.k = "d1" THEN <<W(tok.s), W(tok.f)>>
  ELSE IF tok.k = "d2"
  THEN <<W(tok.s), W(IF tok.c \in 1..12 THEN monthNames[tok.c] ELSE "undefined")>>
  ELSE IF Truthy(month) THEN <<W(tok.s), month>>
  ELSE <<>>

\* dateLength: 1 when the date token is cut off the line, 0 when it stays
CitiDateLength(tok, month) ==
  IF tok.k \in {"d1", "d2"} \/ Truthy(month) THEN 1 ELSE 0

HasAmountTok(line) == \E n \in 1..Len(line) : line[n].k = "a"
\* Variant: the last amount of the line is the one stored.
LastAmountIdx(line) ==
  CHOOSE n \in 1..Len(line) : line[n].k = "a" /\ \A m \in (n + 1)..Len(line) : line[m].k # "a"

FirstAmountIdx(line) ==
  CHOOSE n \in 1..Len(line) : line[n].k = "a" /\ \A m \in 1..(n - 1) : line[m].k # "a"

\* A date token left in the text reads as its digits.
AsText(text) == [n \in 1..Len(text) |->
                   IF text[n].k \in {"d3", "d4"} THEN W(text[n].s) ELSE text[n]]

\* Lines 577-596
CitiDescription(line, dateLength) ==
  AsText(IF HasAmountTok(line)
         THEN SubSeq(line, dateLength + 1, FirstAmountIdx(line) - 1)
         ELSE SubSeq(line, dateLength + 1, Len(line)))

\* Variant: the amount is stored as a debit whether or not it is in parentheses.
WithCitiAmountAsDebit(transaction, amount) ==
  [transaction EXCEPT !.Debit = A(amount.c)]

\* Lines 613-622 and 643-652
WithCitiAmount(transaction, amount) ==
  IF amount.f = "()" THEN [transaction EXCEPT !.Credit = A(amount.c)]
  ELSE [transaction EXCEPT !.Debit = amount]

NewCitiTransaction(dateStr, description, type, account, period, year) ==
  [Date |-> dateStr, Description |-> description, Debit |-> EmptyStr, Credit |-> EmptyStr,
   Balance |-> EmptyStr, Category |-> "", CardType |-> type, CardNumber |-> account,
   StatementDate |-> period, StatementYear |-> year]

\* What the tests of lines 460-527 and 637-653 find in a line, evaluated once
\* per line.
CitiShape(line) ==
  [header |-> Includes(line, "DATE") /\ Includes(line, "DESCRIPTION") /\ Includes(line, "AMOUNT"),
   transactionsFor |-> Includes(line, "TRANSACTIONS FOR"),
   allTransactions |-> Includes(line, "ALL TRANSACTIONS"),
   end |-> line # <<>> /\ IsCitiSectionEnd(line),
   skip |-> IsCitiSkipped(line),
   date |-> line # <<>> /\ CitiDateMatch(line),
   hasAmounts |-> HasAmountTok(line),
   foreign |-> Includes(line, "FOREIGN AMOUNT")]

\* Further lines of a statement text: lines with more than one amount.
CitiPageLines ==
  { <<D1("24", "DEC"), W("STARBUCKS"), A(4500), AP(200)>>,
    <<D1("25", "DEC"), W("REBATE"), AP(4500), A(200)>>,
    <<AP(700), A(900)>>,
    <<A(900), AP(700)>> }

CitiShapes == [line \in CitiLines \cup CitiPageLines \cup {NoLine, EofLine} |-> CitiShape(line)]

\* What a look at lines[i + 1] may find: NoLine when the line is not looked at, a
\* line that passes one of the two tests made on it (lines 466-467, 625), or
\* EofLine, which stands for every lines[i + 1] that fails both tests, the
\* missing one included.
CitiLooks ==
  {NoLine, EofLine}
    \cup {l \in CitiLines : CitiShapes[l].allTransactions \/ CitiShapes[l].foreign}

\* The branch of the loop body a line takes (lines 460-663).
CitiClass(line, next, gate, draftOpen) ==
  LET shape == CitiShapes[line]
  IN IF shape.header \/ (shape.transactionsFor /\ CitiShapes[next].allTransactions) THEN "start"
     ELSE IF ~gate THEN "outside"
     ELSE IF shape.end THEN "end"
     ELSE IF shape.skip THEN "skip"
     ELSE IF shape.date THEN "date"
     ELSE IF draftOpen /\ shape.hasAmounts /\ ~shape.foreign THEN "amount"
     ELSE IF draftOpen /\ ~shape.foreign THEN "cont"
     ELSE "none"

\* Does the loop body look at lines[i + 1] for this line?
LooksAhead(line, gate) ==
  \/ ~CitiShapes[line].header /\ CitiShapes[line].transactionsFor
  \/ CitiClass(line, EofLine, gate, FALSE) = "date"

\* Two candidates for lines[i + 1] that the tests made on it at this line do
\* not tell apart.
SameLook(line, a, b) ==
  IF a = NoLine \/ b = NoLine THEN TRUE
  ELSE IF CitiShapes[line].transactionsFor
  THEN CitiShapes[a].allTransactions = CitiShapes[b].allTransactions
  ELSE CitiShapes[a].foreign = CitiShapes[b].foreign

\* next is what this line finds at lines[i + 1]; it is a line only if the input
\* has one more.
Lookahead(line, next, gate) ==
  IF ~LooksAhead(line, gate) THEN next = NoLine
  ELSE next # NoLine /\ (next = EofLine \/ i + 1 < MaxLines)


----------------------------------------------------------------------------
(* processCitiStatementData: one action per branch of the loop body *)

CitiRead(line, next, class) ==
  /\ bank = "citi"
  /\ Read(line)
  /\ Lookahead(line, next, isTransactionSection)
  /\ CitiClass(line, next, isTransactionSection, DraftOpen) = class
  /\ accountNumber' = CitiAccountOf(line, accountNumber)
  /\ statementPeriod' = IF HasPeriod(line) THEN <<PeriodOf(line)>> ELSE statementPeriod
  /\ statementYear' = IF HasPeriod(line) THEN W(PeriodOf(line).f) ELSE statementYear
  /\ statementMonth' = IF HasPeriod(line) THEN W(Upper3(PeriodOf(line).s)) ELSE statementMonth
  /\ cardType' = IF IsCardType(line) THEN line ELSE cardType
  /\ lastStep' = IF class = "outside"
             THEN OutsideKind(CitiShapes[line].date, CitiShapes[line].hasAmounts)
             ELSE class
  \* the next line is consumed here (i++ at line 627) or is left to be read
  /\ i' = IF class = "date" /\ CitiShapes[next].foreign THEN i + 2 ELSE i + 1
  /\ ruledOut' = IF class = "date" /\ CitiShapes[next].foreign THEN {}
                 ELSE {l \in CitiLines \cup {EofLine} : ~SameLook(line, l, next)}
  /\ UNCHANGED <<bank, pc, dbsVars, fnVars>>

\* Lines 460-475
CitiSectionStart(line, next) ==
  /\ CitiRead(line, next, "start")
  /\ isTransactionSection' = TRUE
  /\ UNCHANGED <<currentTransaction, transactions, hist, draftHist, opened>>

\* Line 478
CitiOutsideSection(line, next) ==
  /\ CitiRead(line, next, "outside")
  /\ UNCHANGED <<isTransactionSection, currentTransaction, transactions, hist, draftHist, opened>>

\* Variant: a section end that pushes the draft and leaves it open.
CitiSectionEndKeepsDraft(line, next) ==
  /\ CitiRead(line, next, "end")
  /\ isTransactionSection' = FALSE
  /\ IF DraftOpen
     THEN /\ transactions' = Append(transactions, categorizeTransaction(currentTransaction))
          /\ hist' = Append(hist, Closed(draftHist, "end", currentTransaction, 0))
          /\ UNCHANGED <<currentTransaction, draftHist>>
     ELSE UNCHANGED <<currentTransaction, transactions, hist, draftHist>>
  /\ UNCHANGED opened

\* Lines 480-499
CitiSectionEnd(line, next) ==
  /\ CitiRead(line, next, "end")
  /\ isTransactionSection' = FALSE
  /\ IF DraftOpen
     THEN /\ transactions' = Append(transactions, categorizeTransaction(currentTransaction))
          /\ hist' = Append(hist, Closed(draftHist, "end", currentTransaction, 0))
          /\ currentTransaction' = NoTransaction
          /\ draftHist' = NoDraftHist
     ELSE UNCHANGED <<currentTransaction, transactions, hist, draftHist>>
  /\ UNCHANGED opened

\* Lines 501-507
CitiSkipped(line, next) ==
  /\ CitiRead(line, next, "skip")
  /\ UNCHANGED <<isTransactionSection, currentTransaction, transactions, hist, draftHist, opened>>

\* Lines 527-636
CitiDateAnchor(line, next) ==
  /\ CitiRead(line, next, "date")
  /\ LET dateStr == CitiDateStr(line[1], statementMonth')
         dateLength == CitiDateLength(line[1], statementMonth')
         fresh == NewCitiTransaction(dateStr, CitiDescription(line, dateLength), cardType',
                                     accountNumber', statementPeriod', statementYear')
         withAmount == IF HasAmountTok(line)
                       THEN WithCitiAmount(fresh, line[FirstAmountIdx(line)])
                       ELSE fresh
         foreign == CitiShapes[next].foreign
     IN /\ IF DraftOpen
           THEN /\ transactions' = Append(transactions, categorizeTransaction(currentTransaction))
                /\ hist' = Append(hist, Closed(draftHist, "anchor", currentTransaction, 0))
           ELSE UNCHANGED <<transactions, hist>>
        /\ currentTransaction' =
             IF foreign
             THEN [withAmount EXCEPT !.Description = @ \o <<W("|")>> \o next]
             ELSE withAmount
        /\ draftHist' = NewDraftHist(i)
        /\ opened' = Append(opened, [at |-> i, date |-> fresh.Date])
  /\ UNCHANGED isTransactionSection

\* Lines 637-652
CitiAmountLine(line, next) ==
  /\ CitiRead(line, next, "amount")
  /\ currentTransaction' = WithCitiAmount(currentTransaction, line[FirstAmountIdx(line)])
  /\ UNCHANGED <<isTransactionSection, transactions, hist, draftHist, opened>>

\* Lines 653-663
CitiContinuation(line, next) ==
  /\ CitiRead(line, next, "cont")
  /\ currentTransaction' = [currentTransaction EXCEPT !.Description = @ \o line]
  /\ UNCHANGED <<isTransactionSection, transactions, hist, draftHist, opened>>

\* No branch of lines 527-663 is taken.
CitiIgnored(line, next) ==
  /\ CitiRead(line, next, "none")
  /\ UNCHANGED <<isTransactionSection, currentTransaction, transactions, hist, draftHist, opened>>

\* parseInt(StatementYear) - 1
PrevYear(year) ==
  CASE year = W("2024") -> W("2023")
    [] year = W("2025") -> W("2024")
    [] OTHER -> W("YYYY-1")

RECURSIVE ReplaceFirst(_, _, _)
ReplaceFirst(text, old, new) ==
  IF text = <<>> THEN <<>>
  ELSE IF Head(text) = old THEN <<new>> \o Tail(text)
  ELSE <<Head(text)>> \o ReplaceFirst(Tail(text), old, new)

\* Lines 673-702
CitiPostProcess(transaction, month) ==
  LET dated == IF transaction.Date # <<>> /\ Truthy(transaction.StatementYear)
                  /\ Len(transaction.Date) = 2
               THEN [transaction EXCEPT !.Date = @ \o <<transaction.StatementYear>>]
               ELSE transaction
  IN IF dated.Date # <<>> /\ Includes(dated.Date, "DEC") /\ month = W("JAN")
     THEN [dated EXCEPT !.Date = ReplaceFirst(@, dated.StatementYear, PrevYear(dated.StatementYear))]
     ELSE dated

\* Lines 666-706
CitiEndOfInput ==
  /\ bank = "citi"
  /\ pc = "scan"
  /\ EofLine \notin ruledOut
  /\ pc' = "done"
  /\ LET all == IF DraftOpen
                THEN Append(transactions, categorizeTransaction(currentTransaction))
                ELSE transactions
     IN transactions' = [n \in 1..Len(all) |-> CitiPostProcess(all[n], statementMonth)]
  /\ hist' = IF DraftOpen THEN Append(hist, Closed(draftHist, "eof", currentTransaction, 0))
             ELSE hist
  /\ lastStep' = "eof"
  /\ UNCHANGED <<bank, i, ruledOut, isTransactionSection, currentTransaction,
                 draftHist, opened, dbsVars, citiVars, fnVars>>

----------------------------------------------------------------------------
(* Specification *)

NoInput == [transaction |-> NoTransaction, lastBalance |-> 0]

\* The state at the start of a call: every local of the parsers at its initializer.
Start ==
  /\ pc = "scan"
  /\ i = 0
  /\ ruledOut = {}
  /\ lastStep = ""
  /\ isTransactionSection = FALSE
  /\ currentAccount = EmptyStr
  /\ currentTransaction = NoTransaction
  /\ multiLineDescription = <<>>
  /\ lastBalance = 0
  /\ recipientLines = <<>>
  /\ isCollectingRecipientInfo = FALSE
  /\ transactions = <<>>
  /\ accountNumber = EmptyStr
  /\ statementPeriod = <<>>
  /\ cardType = <<>>
  /\ statementYear = CurrentYear
  /\ statementMonth = EmptyStr
  /\ hist = <<>>
  /\ draftHist = NoDraftHist
  /\ opened = <<>>
  /\ bbfAt = -1
  /\ bbfAmt = 0
  /\ fnOut = NoTransaction

Init ==
  /\ bank \in {"dbs", "citi"}
  /\ fnIn = NoInput
  /\ Start

Next ==
  \/ \E line \in DBSLines : DBSSectionStart(line)
  \/ \E line \in DBSLines : DBSOutsideSection(line)
  \/ \E line \in DBSLines : DBSBalanceBroughtForward(line)
  \/ \E line \in DBSLines : DBSSkipHeader(line)
  \/ \E line \in DBSLines : DBSSectionEnd(line)
  \/ \E line \in DBSLines : DBSDateAnchor(line)
  \/ \E line \in DBSLines : DBSContinuation(line)
  \/ \E line \in DBSLines : DBSIgnored(line)
  \/ DBSEndOfInput
  \/ \E line \in CitiLines : \E next \in CitiLooks : CitiSectionStart(line, next)
  \/ \E line \in CitiLines : \E next \in CitiLooks : CitiOutsideSection(line, next)
  \/ \E line \in CitiLines : \E next \in CitiLooks : CitiSectionEnd(line, next)
  \/ \E line \in CitiLines : \E next \in CitiLooks : CitiSkipped(line, next)
  \/ \E line \in CitiLines : \E next \in CitiLooks : CitiDateAnchor(line, next)
  \/ \E line \in CitiLines : \E next \in CitiLooks : CitiAmountLine(line, next)
  \/ \E line \in CitiLines : \E next \in CitiLooks : CitiContinuation(line, next)
  \/ \E line \in CitiLines : \E next \in CitiLooks : CitiIgnored(line, next)
  \/ CitiEndOfInput

Spec == Init /\ [][Next]_vars

----------------------------------------------------------------------------
(* verifyTransactionAmounts on its own: one call on a chosen draft *)

\* Amounts a draft may carry when it is reconciled, thousands separator included.
FnAmounts == {EmptyStr, A(10000), A(20000), AC(490000), AC(500000)}
FnBalances == {EmptyStr, A(90000), AC(100000), AC(590000)}
\* lastBalance is 0 or a parsed amount
FnLastBalances == {0, 90000, 100000}

FnDraft(withdrawal, deposit, balance) ==
  [Account |-> EmptyStr, Date |-> Dt("01/02/2024"), Description |-> <<W("MISC")>>,
   Withdrawal |-> withdrawal, Deposit |-> deposit, Balance |-> balance,
   RecipientInfo |-> <<>>, Category |-> ""]

InitFn ==
  /\ bank = "fn"
  /\ fnIn \in [transaction : {FnDraft(w, d, b) : w \in FnAmounts, d \in FnAmounts, b \in FnBalances},
               lastBalance : FnLastBalances]
  /\ Start

CallVerify ==
  /\ bank = "fn"
  /\ pc = "scan"
  /\ fnOut' = verifyTransactionAmounts(fnIn.transaction, fnIn.lastBalance)
  /\ pc' = "done"
  /\ UNCHANGED <<bank, i, ruledOut, lastStep, isTransactionSection, currentTransaction, transactions,
                 hist, draftHist, opened, dbsVars, citiVars, fnIn>>

NextFn == CallVerify

SpecFn == InitFn /\ [][NextFn]_vars

----------------------------------------------------------------------------
(* processAmounts on its own: one call on a chosen draft and line *)

\* What a continuation line may say before its amounts.
PAWords ==
  { <<W("REF")>>,
    <<W("REF"), W("(-)")>>,
    <<W("TO:"), W("JOHN")>>,
    <<W("FROM:"), W("ACME")>>,
    <<W("TO:"), W("FROM:")>> }

\* What a date line may say after its date: also the descriptions of a draft.
PADescriptions ==
  { <<W("MISC")>>,
    <<W("FAST"), W("PAYMENT"), W("TO:"), W("JOHN"), W("DOE")>>,
    <<W("SALARY"), W("FROM:"), W("ACME"), W("CORP")>>,
    <<W("PAYMENT"), W("FROM:"), W("ACME")>> }

\* The last amount of a line is below, at or above a lastBalance of 1000.00.
PABalances == {A(90000), AC(100000), AC(590000)}

PAAmounts ==
  {<<A(10000)>>}
    \cup {<<A(10000), b>> : b \in PABalances}
    \cup {<<A(10000), A(20000), b>> : b \in PABalances}

PAContinuations == {w \o a : w \in PAWords, a \in PAAmounts}
PAAnchors == {<<Dt("05/02/2024")>> \o w \o a : w \in PADescriptions, a \in PAAmounts}

\* What earlier lines may have left in a field of the draft.
PASet == {EmptyStr, A(5000)}
PADraftBalances == {EmptyStr, A(95000)}

PADraft(description, withdrawal, deposit, balance) ==
  [Account |-> EmptyStr, Date |-> Dt("05/02/2024"), Description |-> description,
   Withdrawal |-> withdrawal, Deposit |-> deposit, Balance |-> balance,
   RecipientInfo |-> <<>>, Category |-> ""]

\* The two calls: on a continuation line with any draft (line 355), and on a
\* date line with the draft it has just opened (line 347).
InitPA ==
  /\ bank = "pa"
  /\ fnIn \in
       [transaction : {PADraft(desc, w, d, b) :
                         desc \in PADescriptions, w \in PASet, d \in PASet, b \in PADraftBalances},
        line : PAContinuations,
        lastBalance : FnLastBalances]
       \cup
       {[transaction |-> NewDBSTransaction(EmptyStr, line[1], AfterDate(line)),
         line |-> line, lastBalance |-> lb] : line \in PAAnchors, lb \in FnLastBalances}
  /\ Start

CallProcessAmounts ==
  /\ bank = "pa"
  /\ pc = "scan"
  /\ fnOut' = processAmounts(fnIn.transaction, fnIn.line, DBSAmounts(fnIn.line), fnIn.lastBalance)
  /\ pc' = "done"
  /\ UNCHANGED <<bank, i, ruledOut, lastStep, isTransactionSection, currentTransaction, transactions,
                 hist, draftHist, opened, dbsVars, citiVars, fnIn>>

NextPA == CallProcessAmounts

SpecPA == InitPA /\ [][NextPA]_vars

----------------------------------------------------------------------------
(* addSummaryRow, in its two variants *)

\* A property the object does not have (undefined): falsy like the empty string.
Absent == [k |-> "undefined", s |-> "", c |-> 0, f |-> ""]

\* if (transaction.Withdrawal) { ... if (!isNaN(withdrawal)) { ... } }
Counted(transaction, field) ==
  /\ Truthy(transaction[field])
  /\ transaction[field] # Absent
  /\ ~parseFloat(transaction[field]).nan

\* Variant: the category is used as it is.
CategoryAsIs(transaction) == transaction.Category

\* transaction.Category || "Uncategorized"
CategoryKey(transaction) ==
  IF transaction.Category # "" THEN transaction.Category ELSE "Uncategorized"

\* totalWithdrawal / totalDeposit after the loop, in cents
RECURSIVE Total(_, _)
Total(data, field) ==
  IF data = <<>> THEN 0
  ELSE (IF Counted(Head(data), field) THEN parseFloat(Head(data)[field]).v ELSE 0)
         + Total(Tail(data), field)

\* One of the two if-blocks of the loop body: categoryTotals is kept as the list
\* of its entries in insertion order, which is the order for...in visits them.
AddAmount(totals, transaction, field, side) ==
  IF ~Counted(transaction, field) THEN totals
  ELSE LET category == CategoryKey(transaction)
           known == \E n \in 1..Len(totals) : totals[n].category = category
           all == IF known THEN totals
                  ELSE Append(totals, [category |-> category, withdrawal |-> 0, deposit |-> 0])
       IN [n \in 1..Len(all) |->
             IF all[n].category = category
             THEN [all[n] EXCEPT ![side] = @ + parseFloat(transaction[field]).v]
             ELSE all[n]]

RECURSIVE CategoryTotals(_, _, _, _)
CategoryTotals(data, debit, credit, totals) ==
  IF data = <<>> THEN totals
  ELSE CategoryTotals(Tail(data), debit, credit,
                      AddAmount(AddAmount(totals, Head(data), debit, "withdrawal"),
                                Head(data), credit, "deposit"))

\* totals.withdrawal > 0 ? totals.withdrawal.toFixed(2) : ""
PositiveOrBlank(cents) == IF cents > 0 THEN toFixed2(Num(cents)) ELSE EmptyStr

\* The object literals pushed by the DBS variant and by the Citi variant.
DBSRow(description, withdrawal, deposit, category) ==
  [Date |-> EmptyStr, Description |-> description, Withdrawal |-> withdrawal,
   Deposit |-> deposit, Balance |-> EmptyStr, Account |-> EmptyStr, Category |-> category]
CitiRow(description, debit, credit, category) ==
  [Date |-> <<>>, Description |-> description, Debit |-> debit, Credit |-> credit,
   Balance |-> EmptyStr, Category |-> category]

\* The rows pushed after the loop: a blank row, one row per entry of
\* categoryTotals, a blank row, the TOTAL row.
SummaryRows(data, debit, credit, Row(_, _, _, _)) ==
  LET totals == CategoryTotals(data, debit, credit, <<>>)
      blank == Row(<<>>, EmptyStr, EmptyStr, "")
  IN <<blank>>
       \o [n \in 1..Len(totals) |->
             Row(<<W("SUBTOTAL:"), W(totals[n].category)>>,
                 PositiveOrBlank(totals[n].withdrawal),
                 PositiveOrBlank(totals[n].deposit),
                 totals[n].category)]
       \o <<blank>>
       \o <<Row(<<W("TOTAL")>>, toFixed2(Num(Total(data, debit))),
                toFixed2(Num(Total(data, credit))), "")>>

\* Variant: the summary rows are put in front of the transactions.
SummaryRowsFirst(data) == SummaryRows(data, "Withdrawal", "Deposit", DBSRow) \o data

\* src/dbs-to-excel.ts: data after addSummaryRow(data)
addSummaryRow(data) == data \o SummaryRows(data, "Withdrawal", "Deposit", DBSRow)

\* src/README.md: data after addSummaryRow(data)
addCitiSummaryRow(data) == data \o SummaryRows(data, "Debit", "Credit", CitiRow)

----------------------------------------------------------------------------
(* addSummaryRow on its own: one call on a chosen list of transactions *)

MaxData == 3

SumCategories == {"", "Dining", "Transfer"}

\* The two amount fields of a transaction: a debit, a credit written with a
\* thousands separator, a debit of zero, a debit that does not parse next to a
\* credit.
SumAmounts ==
  { <<A(1250), EmptyStr>>, <<EmptyStr, AC(125000)>>, <<A(0), EmptyStr>>, <<W("NaN"), A(500)>> }

SumDBSTransaction(category, amounts) ==
  [Account |-> EmptyStr, Date |-> Dt("01/02/2024"), Description |-> <<W("MISC")>>,
   Withdrawal |-> amounts[1], Deposit |-> amounts[2], Balance |-> EmptyStr,
   RecipientInfo |-> <<>>, Category |-> category]

SumCitiTransaction(category, amounts) ==
  [NewCitiTransaction(<<W("20"), W("DEC"), CurrentYear>>, <<W("MISC")>>, <<>>, EmptyStr, <<>>,
                      CurrentYear)
     EXCEPT !.Debit = amounts[1], !.Credit = amounts[2], !.Category = category]

SumLists(S) == UNION {[1..n -> S] : n \in 0..MaxData}

InitSum ==
  /\ bank = "sum"
  /\ fnIn \in
       [variant : {"dbs"},
        data : SumLists({SumDBSTransaction(c, a) : c \in SumCategories, a \in SumAmounts})]
       \cup
       [variant : {"citi"},
        data : SumLists({SumCitiTransaction(c, a) : c \in SumCategories, a \in SumAmounts})]
  /\ Start

CallAddSummaryRow ==
  /\ bank = "sum"
  /\ pc = "scan"
  /\ fnOut' = IF fnIn.variant = "dbs" THEN addSummaryRow(fnIn.data)
              ELSE addCitiSummaryRow(fnIn.data)
  /\ pc' = "done"
  /\ UNCHANGED <<bank, i, ruledOut, lastStep, isTransactionSection, currentTransaction, transactions,
                 hist, draftHist, opened, dbsVars, citiVars, fnIn>>

NextSum == CallAddSummaryRow

SpecSum == InitSum /\ [][NextSum]_vars

----------------------------------------------------------------------------
(* processStatementDataAlternative and determineCategory (DBS) *)

\* dbs-to-excel.ts 1156-1220: the keyword rules for a withdrawal, in the order
\* they are tried.
WithdrawalRules ==
  << [kws |-> {"RESTAURANT", "CAFE", "FOOD", "BAKERY", "COFFEE"}, category |-> "Dining"],
     [kws |-> {"MARKET", "SUPERMARKET", "GROCERY", "NTUC", "FAIRPRICE", "COLD STORAGE"},
      category |-> "Groceries"],
     [kws |-> {"TRANSPORT", "GRAB", "TAXI", "MRT", "BUS", "GOJEK"}, category |-> "Transport"],
     [kws |-> {"AMAZON", "LAZADA", "SHOPEE", "QOOLMART"}, category |-> "Shopping"],
     [kws |-> {"BILL", "UTILITY", "POWER", "WATER", "GAS", "ELECTRICITY"}, category |-> "Bills"],
     [kws |-> {"INSURANCE"}, category |-> "Insurance"],
     [kws |-> {"RENT", "PROPERTY", "CONDO", "APARTMENT"}, category |-> "Housing"],
     [kws |-> {"ATM", "WITHDRAWAL"}, category |-> "Cash Withdrawal"],
     [kws |-> {"FEE", "CHARGE", "SERVICE CHARGE"}, category |-> "Fees"],
     [kws |-> {"TRANSFER"}, category |-> "Transfer"] >>

\* dbs-to-excel.ts 1224-1243: the keyword rules for a deposit.
DepositRules ==
  << [kws |-> {"SALARY", "PAYROLL", "WAGE", "COMPENSATION"}, category |-> "Salary"],
     [kws |-> {"DIVIDEND", "INTEREST", "INVESTMENT"}, category |-> "Investment Income"],
     [kws |-> {"REFUND"}, category |-> "Refund"],
     [kws |-> {"TRANSFER"}, category |-> "Transfer"] >>

determineCategory(description, type) ==
  LET rules == IF type = "withdrawal" THEN WithdrawalRules ELSE DepositRules
      hits == {n \in 1..Len(rules) : RuleMatches(description, rules[n])}
  IN IF hits # {} THEN rules[First(hits)].category
     ELSE IF type = "withdrawal" THEN "Expense"
     ELSE "Income"

IsAmountTok(tok) == tok.k = "a"
NotAmountTok(tok) == tok.k # "a"

\* line.replace(datePattern, "") with every amount removed: the line without
\* its first date and without its amounts.
AltDescription(line) ==
  SelectSeq(SubSeq(line, 1, FirstDateIdx(line) - 1) \o AfterDate(line), NotAmountTok)

\* Lines 1092-1108 and 1114-1130: the direction of a line with one or two amounts.
AltIsWithdrawal(description) ==
  HasAny(description, {"PAYMENT", "PURCHASE", "WITHDRAWAL", "DEBIT"})
AltIsDeposit(description) ==
  HasAny(description, {"DEPOSIT", "CREDIT", "SALARY", "INCOME"})

\* Lines 1068-1131: the object built for a line with a date and amounts. A
\* property the code does not set is Absent.
AltTransaction(date, description, amounts) ==
  LET base == [Date |-> date, Description |-> description, Category |-> "",
               Withdrawal |-> Absent, Deposit |-> Absent, Balance |-> Absent, Amount |-> Absent]
      single == [base EXCEPT !.Amount = amounts[1]]
      directed == IF AltIsWithdrawal(description)
                  THEN [single EXCEPT !.Withdrawal = amounts[1],
                                      !.Category = determineCategory(description, "withdrawal")]
                  ELSE IF AltIsDeposit(description)
                  THEN [single EXCEPT !.Deposit = amounts[1],
                                      !.Category = determineCategory(description, "deposit")]
                  ELSE single
  IN IF Len(amounts) >= 3
     THEN [base EXCEPT !.Withdrawal = amounts[1], !.Deposit = amounts[2], !.Balance = amounts[3],
                       !.Category = determineCategory(description, "withdrawal")]
     ELSE IF Len(amounts) = 2 THEN [directed EXCEPT !.Balance = amounts[2]]
     ELSE directed

\* Lines 1038-1142, for one line: the transactions it adds. A line with a
\* DD/MM/YYYY date has ten characters or more, so the test of line 1041 never
\* drops one.
DBSAlternativeLine(line) ==
  IF HasDate(line) /\ DBSAmounts(line) # <<>>
  THEN <<AltTransaction(line[FirstDateIdx(line)], AltDescription(line), DBSAmounts(line))>>
  ELSE <<>>

\* dbs-to-excel.ts 1032-1146, on the non-blank lines of the text
RECURSIVE DBSAlternative(_)
DBSAlternative(lines) ==
  IF lines = <<>> THEN <<>>
  ELSE DBSAlternativeLine(Head(lines)) \o DBSAlternative(Tail(lines))

----------------------------------------------------------------------------
(* Raw Citi text, and the length of strings *)

\* A DD MMM date written without the blank ("20DEC"), as the raw text of a
\* statement has it.
D1G(day, mon) == [k |-> "d1", s |-> day, c |-> 1, f |-> mon]
IsGluedDate(tok) == tok.k = "d1" /\ tok.c = 1

\* textContent.replace(/(\d{2})([A-Z]{3})/g, "$1 $2"), for one line
Preprocess(line) ==
  [n \in 1..Len(line) |-> IF IsGluedDate(line[n]) THEN D1(line[n].s, line[n].f) ELSE line[n]]

\* The number of characters of a word
WordChars(s) ==
  CASE s \in {"(", "|"} -> 1
    [] s \in {"SG", "20", "21", "22", "23", "10"} -> 2
    [] s \in {"FOR", "ALL", "USD", "DEC", "JAN"} -> 3
    [] s \in {"DATE", "GRAB", "YYYY", "2024", "2023"} -> 4
    [] s \in {"Date:"} -> 5
    [] s \in {"AMOUNT", "REBATE", "YYYY-1"} -> 6
    [] s \in {"FOREIGN", "BALANCE", "AMOUNT:"} -> 7
    [] s \in {"PREVIOUS", "7-ELEVEN"} -> 8
    [] s \in {"STARBUCKS", "SINGAPORE", "Singapore", "STATEMENT", "Statement"} -> 9
    [] s \in {"SUB-TOTAL:"} -> 10
    [] s \in {"DESCRIPTION"} -> 11
    [] s \in {"TRANSACTIONS"} -> 12
    [] s \in {"ShopBackPappaRichN"} -> 18
    [] s \in {"ShopBackPappaRichNorthp"} -> 23

\* The number of characters of an amount: its digits, the point, and what
\* its formatting adds.
AmountChars(tok) ==
  (IF tok.c < 1000 THEN 4 ELSE IF tok.c < 10000 THEN 5 ELSE IF tok.c < 100000 THEN 6 ELSE 7)
    + (IF tok.f = "()" THEN 2 ELSE IF tok.f = "," THEN 1 ELSE 0)

TokChars(tok) ==
  CASE tok.k = "a" -> AmountChars(tok)
    [] tok.k = "d1" -> IF tok.c = 1 THEN 5 ELSE 6
    [] tok.k = "d2" -> 5
    [] tok.k \in {"d3", "d4"} -> 2
    [] tok.k = "d" -> 10
    [] tok.k = "card" -> 16
    [] tok.k = "w" -> WordChars(tok.s)

\* string.length of a text whose tokens are separated by one blank
RECURSIVE Chars(_)
Chars(text) ==
  IF text = <<>> THEN 0
  ELSE IF Len(text) = 1 THEN TokChars(text[1])
  ELSE TokChars(Head(text)) + 1 + Chars(Tail(text))

----------------------------------------------------------------------------
(* processStatementDataAlternative (Citi) *)

\* README.md 849-886: the first pass over all lines
RECURSIVE CitiAltMeta(_, _)
CitiAltMeta(lines, meta) ==
  IF lines = <<>> THEN meta
  ELSE LET line == Head(lines)
           dated == Includes(line, "Statement Date") /\ \E n \in 1..Len(line) : PeriodAt(line, n)
       IN CitiAltMeta(Tail(lines),
            [cardType |-> IF IsCardType(line) THEN line ELSE meta.cardType,
             accountNumber |-> CitiAccountOf(line, meta.accountNumber),
             statementDate |-> IF dated THEN <<PeriodOf(line)>> ELSE meta.statementDate,
             statementYear |-> IF dated THEN W(PeriodOf(line).f) ELSE meta.statementYear,
             statementMonth |-> IF dated THEN W(Upper3(PeriodOf(line).s)) ELSE meta.statementMonth])

NoCitiMeta ==
  [cardType |-> <<>>, accountNumber |-> EmptyStr, statementDate |-> <<>>,
   statementYear |-> CurrentYear, statementMonth |-> EmptyStr]

\* README.md 891-900
CitiAltSkipped(line) ==
  \/ Includes(line, "BALANCE PREVIOUS STATEMENT")
  \/ Includes(line, "PAYMENT-THANK YOU")
  \/ Includes(line, "SUB-TOTAL:")
  \/ Includes(line, "GRAND TOTAL")
  \/ Includes(line, "TOTAL FOR")
  \/ Includes(line, "YOUR CITI THANK YOU POINTS")

\* README.md 905-951: the line is taken for a transaction. Of the lines read
\* here only those that start with a date token start with two digits.
CitiAltCandidate(line, month) ==
  /\ ~CitiAltSkipped(line)
  /\ Chars(line) >= 8
  /\ CitiDateMatch(line)
  /\ HasAmountTok(line)
  /\ line[1].k \in {"d1", "d2"} \/ Truthy(month)

\* README.md 953-1036: the transaction of a candidate line; next is lines[i + 1]
\* or NoLine
CitiAltTransaction(line, next, meta) ==
  LET fresh == NewCitiTransaction(CitiDateStr(line[1], meta.statementMonth),
                                  AsText(SelectSeq(Tail(line), NotAmountTok)),
                                  meta.cardType, meta.accountNumber, meta.statementDate,
                                  meta.statementYear)
      withAmount == WithCitiAmount(fresh, line[FirstAmountIdx(line)])
      described == IF next # NoLine /\ Includes(next, "FOREIGN AMOUNT")
                   THEN [withAmount EXCEPT !.Description = @ \o <<W("|")>> \o next]
                   ELSE withAmount
  IN CitiPostProcess(categorizeTransaction(described), meta.statementMonth)

\* README.md 889-1045: the second pass, from lines[n] on
RECURSIVE CitiAltFrom(_, _, _)
CitiAltFrom(lines, n, meta) ==
  IF n > Len(lines) THEN <<>>
  ELSE LET next == IF n + 1 <= Len(lines) THEN lines[n + 1] ELSE NoLine
       IN IF ~CitiAltCandidate(lines[n], meta.statementMonth)
          THEN CitiAltFrom(lines, n + 1, meta)
          ELSE <<CitiAltTransaction(lines[n], next, meta)>>
                 \o CitiAltFrom(lines,
                                IF next # NoLine /\ Includes(next, "FOREIGN AMOUNT")
                                THEN n + 2 ELSE n + 1,
                                meta)

\* README.md 833-1050, on the non-blank lines of the preprocessed text
CitiAlternative(lines) == CitiAltFrom(lines, 1, CitiAltMeta(lines, NoCitiMeta))

----------------------------------------------------------------------------
(* extractTransactionsFromRawText (Citi) *)

\* The raw text as one run of tokens: the regular expressions of this function
\* take a line break for white space.
RECURSIVE Flatten(_)
Flatten(text) == IF text = <<>> THEN <<>> ELSE Head(text) \o Flatten(Tail(text))

\* str.substring(0, 10): the tokens that fit in ten characters, each with the
\* number of its characters that are kept. A blank that ends the prefix is the
\* empty word with no character kept; a word cut short is told by the word and
\* the number of characters kept.
RECURSIVE TakeChars(_, _)
TakeChars(text, room) ==
  IF text = <<>> THEN <<>>
  ELSE IF room = 0 THEN <<[tok |-> EmptyStr, chars |-> 0]>>
  ELSE IF TokChars(Head(text)) > room THEN <<[tok |-> Head(text), chars |-> room]>>
  ELSE IF TokChars(Head(text)) = room \/ Tail(text) = <<>>
  THEN <<[tok |-> Head(text), chars |-> TokChars(Head(text))]>>
  ELSE <<[tok |-> Head(text), chars |-> TokChars(Head(text))]>>
         \o TakeChars(Tail(text), room - TokChars(Head(text)) - 1)

Prefix10(description) == TakeChars(description, 10)

\* haystack.includes(prefix), the prefix lying on token boundaries: its
\* tokens are found in a row, the last of them as the beginning of a token.
PrefixAt(haystack, prefix, n) ==
  \A j \in 1..Len(prefix) :
    IF prefix[j].chars = 0 THEN n + j - 1 <= Len(haystack)
    ELSE /\ n + j - 1 <= Len(haystack)
         /\ IF j < Len(prefix) \/ prefix[j].tok.k # "w"
            THEN haystack[n + j - 1] = prefix[j].tok
            ELSE /\ haystack[n + j - 1].k = "w"
                 /\ prefix[j].tok.s \in Subs(haystack[n + j - 1].s)
PrefixOccurs(haystack, prefix) == \E n \in 1..(Len(haystack) + 1) : PrefixAt(haystack, prefix, n)

\* README.md 1076-1088
DirectSkipped(description) ==
  \/ Chars(description) < 3
  \/ \E kw \in {"PAGE", "TOTAL", "BALANCE", "Payment", "DueDate", "Statement", "sfrom", "CoReg"} :
       Includes(description, kw)

\* README.md 1091-1112
validDays ==
  {"01", "02", "03", "04", "05", "06", "07", "08", "09", "10", "11", "12", "13", "14", "15", "16",
   "17", "18", "19", "20", "21", "22", "23", "24", "25", "26", "27", "28", "29", "30", "31"}
validMonths == {monthNames[n] : n \in 1..12}

\* README.md 1120-1125: the description around the first FOREIGN AMOUNT
ForeignAt(description) == {n \in 1..Len(description) : MatchAt(description, n, <<"FOREIGN", "AMOUNT">>, FALSE)}
ForeignSplit(description) ==
  IF ForeignAt(description) = {} THEN description
  ELSE LET n == First(ForeignAt(description))
           later == {m \in ForeignAt(description) : m > n}
           end == IF later = {} THEN Len(description) ELSE First(later) - 1
       IN SubSeq(description, 1, n - 1) \o <<W("|"), W("FOREIGN"), W("AMOUNT:")>>
            \o SubSeq(description, n + 2, end)

\* README.md 1127-1166: the transaction of a match. The description ends where
\* the amount starts, so it never holds the amount in parentheses and the
\* amount is always taken for a debit.
DirectTransaction(date, description, amount, january) ==
  LET transaction == categorizeTransaction(
                       [Date |-> <<W(date.s), W(date.f)>>, Description |-> ForeignSplit(description),
                        Debit |-> amount, Credit |-> EmptyStr, Balance |-> EmptyStr, Category |-> ""])
      year == IF date.f = "DEC" /\ january THEN PrevYear(CurrentYear) ELSE CurrentYear
  IN [transaction EXCEPT !.Date = @ \o <<year>>]

\* README.md 1070-1173: the matches of transactionRegex from flat[p] on. A
\* match starts at a date written without a blank and ends with the first
\* amount after it; what lies between is the description, the opening
\* parenthesis of the amount included. (The amounts of the raw Citi texts read
\* here have no thousands separator, and every character of these texts is
\* one the description may hold.)
RECURSIVE DirectFrom(_, _, _)
DirectFrom(flat, p, january) ==
  LET starts == {q \in p..Len(flat) :
                   IsGluedDate(flat[q]) /\ \E r \in (q + 1)..Len(flat) : IsAmountTok(flat[r])}
  IN IF starts = {} THEN <<>>
     ELSE LET q == First(starts)
              r == First({r \in (q + 1)..Len(flat) : IsAmountTok(flat[r])})
              description == SubSeq(flat, q + 1, r - 1)
                               \o (IF flat[r].f = "()" THEN <<W("(")>> ELSE <<>>)
              found == IF \/ DirectSkipped(description)
                          \/ flat[q].s \notin validDays
                          \/ flat[q].f \notin validMonths
                       THEN <<>>
                       ELSE <<DirectTransaction(flat[q], description, A(flat[r].c), january)>>
          IN found \o DirectFrom(flat, r + 1, january)

\* README.md 1176-1256: the special case of one merchant
IsPappaRich(tok) == tok.k = "w" /\ tok.s \in {"ShopBackPappaRichNorthp", "ShopBackPappaRichN"}
PappaRichDescription == <<W("ShopBackPappaRichNorthp"), W("Singapore"), W("SG")>>

\* pappaRichRegex matches within a line: a date written without a blank, the
\* merchant after it, an amount after the merchant.
PappaRichLine(line) ==
  LET dates == {q \in 1..Len(line) : IsGluedDate(line[q])}
      merchants == {w \in 1..Len(line) : dates # {} /\ w > First(dates) /\ IsPappaRich(line[w])}
      amounts == {r \in 1..Len(line) : merchants # {} /\ r > First(merchants) /\ IsAmountTok(line[r])}
  IN IF amounts = {} THEN <<>>
     ELSE IF line[First(dates)].s \notin validDays \/ line[First(dates)].f \notin validMonths
     THEN <<>>
     ELSE <<[Date |-> <<W(line[First(dates)].s), W(line[First(dates)].f), CurrentYear>>,
             Description |-> PappaRichDescription,
             Debit |-> A(line[First(amounts)].c), Credit |-> EmptyStr, Balance |-> EmptyStr,
             Category |-> "Dining"]>>

RECURSIVE PappaRichLines(_)
PappaRichLines(text) ==
  IF text = <<>> THEN <<>> ELSE PappaRichLine(Head(text)) \o PappaRichLines(Tail(text))

WithPappaRich(text, transactions0) ==
  IF ~(\E n \in 1..Len(Flatten(text)) : IsPappaRich(Flatten(text)[n])) THEN transactions0
  ELSE LET all == transactions0 \o PappaRichLines(text)
       IN IF \E n \in 1..Len(all) : Includes(all[n].Description, "ShopBackPappaRichNorthp")
          THEN all
          ELSE Append(all, [Date |-> <<W("10"), W("JAN"), CurrentYear>>,
                            Description |-> PappaRichDescription,
                            Debit |-> A(2041), Credit |-> EmptyStr, Balance |-> EmptyStr,
                            Category |-> "Dining"])

\* README.md 1262-1265: transaction.Debit || transaction.Credit, and the key
DebitOrCredit(transaction) ==
  IF Truthy(transaction.Debit) THEN transaction.Debit ELSE transaction.Credit
KeyOfTransaction(transaction) ==
  <<transaction.Date, DebitOrCredit(transaction), Prefix10(transaction.Description)>>

\* README.md 1257-1271: the first transaction of every key
Unique(all) ==
  SelectSeq([n \in 1..Len(all) |-> [at |-> n, transaction |-> all[n]]],
            LAMBDA e : \A m \in 1..(e.at - 1) :
                         KeyOfTransaction(all[m]) # KeyOfTransaction(e.transaction))

\* Variant: every transaction found is returned.
ExtractedWithDuplicates(text, january) ==
  WithPappaRich(text, DirectFrom(Flatten(text), 1, january))

\* README.md 1056-1277
extractTransactionsFromRawText(text, january) ==
  LET unique == Unique(WithPappaRich(text, DirectFrom(Flatten(text), 1, january)))
  IN [n \in 1..Len(unique) |-> unique[n].transaction]

----------------------------------------------------------------------------
(* convertCitiPdfToExcel: the merge of the direct extraction (README.md 215-246) *)

\* README.md 234-240
IsDuplicate(data, transaction) ==
  \E n \in 1..Len(data) :
    /\ data[n].Date = transaction.Date
    /\ data[n].Debit = transaction.Debit \/ data[n].Credit = transaction.Credit
    /\ PrefixOccurs(data[n].Description, Prefix10(transaction.Description))

\* README.md 232-245
RECURSIVE AddUnique(_, _)
AddUnique(data, direct) ==
  IF direct = <<>> THEN data
  ELSE AddUnique(IF IsDuplicate(data, Head(direct)) THEN data ELSE Append(data, Head(direct)),
                 Tail(direct))

\* README.md 221-246
MergeDirect(data, direct) ==
  IF Len(direct) > Len(data) THEN direct
  ELSE IF Len(direct) > 0 THEN AddUnique(data, direct)
  ELSE data

----------------------------------------------------------------------------
(* convertPdfToExcel and convertCitiPdfToExcel: the parser run on a given text, *)
(* then the fallbacks and the summary                                          *)

MaxDocLines == 3

\* if (data.length < 6), README.md 216
DirectThreshold == 6

\* The lines a DBS text is made of, and the raw lines of a Citi text; a text
\* may have blank lines as well.
HostDBSLines ==
  DBSPageLines \cup
  { <<W("Transaction"), W("Details")>>,
    <<W("Account"), W("No."), W("123-456-7")>>,
    <<W("Balance"), W("Brought"), W("Forward"), W("SGD"), AC(100000)>>,
    <<W("CURRENCY:"), W("SGD")>>,
    <<W("Total")>>,
    <<Dt("01/02/2024"), W("FAST"), W("PAYMENT"), W("TO:"), W("JOHN"), W("DOE"), A(10000), A(90000)>>,
    <<W("JOHN"), W("DOE")>> }

HostCitiLines ==
  { <<W("DATE"), W("DESCRIPTION"), W("AMOUNT")>>,
    <<W("SUB-TOTAL:"), A(2550)>>,
    <<W("BALANCE"), W("PREVIOUS"), W("STATEMENT"), A(50000)>>,
    <<D1G("20", "DEC"), W("STARBUCKS"), A(1250)>>,
    <<D1G("21", "DEC"), W("REBATE"), AP(500)>>,
    <<D1G("22", "DEC"), W("GRAB")>>,
    <<W("SINGAPORE"), W("SG")>>,
    <<A(900)>> }

Texts(S) == UNION {[1..n -> S \cup {NoLine}] : n \in 0..MaxDocLines}

\* A call of a host: fnIn is the text of the PDF and whether the program runs
\* in January (new Date().getMonth() === 0).
HostRunning == "text" \in DOMAIN fnIn

NotBlank(line) == line # NoLine

\* textContent.split("\n").filter((line) => line.trim() !== ""), after the
\* preprocessing of the Citi parsers
HostLines ==
  IF bank = "dbs" THEN SelectSeq(fnIn.text, NotBlank)
  ELSE [n \in 1..Len(SelectSeq(fnIn.text, NotBlank)) |-> Preprocess(SelectSeq(fnIn.text, NotBlank)[n])]

\* The parser reads lines[i]
HostReads == HostRunning /\ pc = "scan" /\ i < Len(HostLines)
HostLine == HostLines[i + 1]
\* What the Citi parser finds at lines[i + 1] when it looks there
HostNext ==
  IF ~LooksAhead(HostLine, isTransactionSection) THEN NoLine
  ELSE IF i + 2 <= Len(HostLines) /\ HostLines[i + 2] \in CitiLooks THEN HostLines[i + 2]
  ELSE EofLine
\* The loop of the parser has read every line
HostAtEnd == HostRunning /\ pc = "scan" /\ i >= Len(HostLines)

\* What the host has called so far: the list the primary parser returned, and
\* for each fallback the list it returned, if it was called.
HostCalls(primary, alternative, direct) ==
  [primary |-> primary, alternative |-> alternative, direct |-> direct]

\* dbs-to-excel.ts 30-44, README.md 199-213
HostAlternative ==
  /\ HostRunning
  /\ pc = "done"
  /\ pc' = "fallback"
  /\ LET alternativeData == IF bank = "dbs" THEN DBSAlternative(HostLines)
                            ELSE CitiAlternative(HostLines)
     IN IF Len(transactions) = 0
        THEN /\ transactions' = alternativeData
             /\ fnOut' = HostCalls(transactions, <<alternativeData>>, <<>>)
        ELSE /\ UNCHANGED transactions
             /\ fnOut' = HostCalls(transactions, <<>>, <<>>)
  /\ UNCHANGED <<bank, i, ruledOut, lastStep, isTransactionSection, currentTransaction,
                 hist, draftHist, opened, dbsVars, citiVars, fnIn>>

\* README.md 215-246
HostDirect ==
  /\ HostRunning
  /\ bank = "citi"
  /\ pc = "fallback"
  /\ pc' = "merged"
  /\ IF Len(transactions) < DirectThreshold
     THEN LET directExtractionData == extractTransactionsFromRawText(fnIn.text, fnIn.january)
          IN /\ transactions' = MergeDirect(transactions, directExtractionData)
             /\ fnOut' = [fnOut EXCEPT !.direct = <<directExtractionData>>]
     ELSE UNCHANGED <<transactions, fnOut>>
  /\ UNCHANGED <<bank, i, ruledOut, lastStep, isTransactionSection, currentTransaction,
                 hist, draftHist, opened, dbsVars, citiVars, fnIn>>

Placeholder ==
  [Note |-> IF bank = "dbs"
            THEN "No transactions could be automatically extracted from the PDF. Please check extracted-text.txt and adjust the parsing logic."
            ELSE "No transactions could be automatically extracted from the PDF. Please check citi-extracted-text.txt and adjust the parsing logic."]

\* Variant: the summary rows are added to an empty list as well.
HostSummaryAlways ==
  /\ HostRunning
  /\ pc = IF bank = "dbs" THEN "fallback" ELSE "merged"
  /\ pc' = "out"
  /\ transactions' = IF bank = "dbs" THEN addSummaryRow(transactions)
                     ELSE addCitiSummaryRow(transactions)
  /\ UNCHANGED <<bank, i, ruledOut, lastStep, isTransactionSection, currentTransaction,
                 hist, draftHist, opened, dbsVars, citiVars, fnVars>>

\* dbs-to-excel.ts 46-54, README.md 248-256
HostSummary ==
  /\ HostRunning
  /\ pc = IF bank = "dbs" THEN "fallback" ELSE "merged"
  /\ pc' = "out"
  /\ transactions' = IF Len(transactions) = 0 THEN <<Placeholder>>
                     ELSE IF bank = "dbs" THEN addSummaryRow(transactions)
                     ELSE addCitiSummaryRow(transactions)
  /\ UNCHANGED <<bank, i, ruledOut, lastStep, isTransactionSection, currentTransaction,
                 hist, draftHist, opened, dbsVars, citiVars, fnVars>>

InitHost ==
  /\ bank \in {"dbs", "citi"}
  /\ fnIn \in IF bank = "dbs" THEN [text : Texts(HostDBSLines), january : {FALSE}]
              ELSE [text : Texts(HostCitiLines), january : BOOLEAN]
  /\ Start

NextHost ==
  \/ HostReads /\ DBSSectionStart(HostLine)
  \/ HostReads /\ DBSOutsideSection(HostLine)
  \/ HostReads /\ DBSBalanceBroughtForward(HostLine)
  \/ HostReads /\ DBSSkipHeader(HostLine)
  \/ HostReads /\ DBSSectionEnd(HostLine)
  \/ HostReads /\ DBSDateAnchor(HostLine)
  \/ HostReads /\ DBSContinuation(HostLine)
  \/ HostReads /\ DBSIgnored(HostLine)
  \/ HostAtEnd /\ DBSEndOfInput
  \/ HostReads /\ CitiSectionStart(HostLine, HostNext)
  \/ HostReads /\ CitiOutsideSection(HostLine, HostNext)
  \/ HostReads /\ CitiSectionEnd(HostLine, HostNext)
  \/ HostReads /\ CitiSkipped(HostLine, HostNext)
  \/ HostReads /\ CitiDateAnchor(HostLine, HostNext)
  \/ HostReads /\ CitiAmountLine(HostLine, HostNext)
  \/ HostReads /\ CitiContinuation(HostLine, HostNext)
  \/ HostReads /\ CitiIgnored(HostLine, HostNext)
  \/ HostAtEnd /\ CitiEndOfInput
  \/ HostAlternative
  \/ HostDirect
  \/ HostSummary

SpecHost == InitHost /\ [][NextHost]_vars

----------------------------------------------------------------------------
(* processCitiStatementData on a given text of lines with several amounts *)

CitiTextLines ==
  CitiPageLines \cup
  { <<W("DATE"), W("DESCRIPTION"), W("AMOUNT")>>,
    <<W("SUB-TOTAL:"), A(2550)>>,
    <<W("BALANCE"), W("PREVIOUS"), W("STATEMENT"), A(50000)>>,
    <<D1("22", "DEC"), W("GRAB")>>,
    <<W("SINGAPORE"), W("SG")>>,
    <<W("FOREIGN"), W("AMOUNT"), W("USD"), A(1000)>> }

InitCitiText ==
  /\ bank = "citi"
  /\ fnIn \in [text : UNION {[1..n -> CitiTextLines] : n \in 0..MaxDocLines}, january : {FALSE}]
  /\ Start

NextCitiText ==
  \/ HostReads /\ CitiSectionStart(HostLine, HostNext)
  \/ HostReads /\ CitiOutsideSection(HostLine, HostNext)
  \/ HostReads /\ CitiSectionEnd(HostLine, HostNext)
  \/ HostReads /\ CitiSkipped(HostLine, HostNext)
  \/ HostReads /\ CitiDateAnchor(HostLine, HostNext)
  \/ HostReads /\ CitiAmountLine(HostLine, HostNext)
  \/ HostReads /\ CitiContinuation(HostLine, HostNext)
  \/ HostReads /\ CitiIgnored(HostLine, HostNext)
  \/ HostAtEnd /\ CitiEndOfInput

SpecCitiText == InitCitiText /\ [][NextCitiText]_vars

----------------------------------------------------------------------------
(* extractTransactionsFromRawText on its own: one call on a chosen text *)

DirectLines ==
  { <<D1G("20", "DEC"), W("STARBUCKS"), A(1250)>>,
    <<D1G("21", "DEC"), W("REBATE"), AP(500)>>,
    <<D1G("22", "DEC"), W("GRAB")>>,
    <<A(900)>>,
    <<W("ShopBackPappaRichN"), W("Singapore"), W("SG")>>,
    <<D1G("15", "JAN"), W("ShopBackPappaRichNorthp"), W("Singapore"), W("SG"), A(1890)>> }

InitDirect ==
  /\ bank = "direct"
  /\ fnIn \in [textContent : Texts(DirectLines), january : BOOLEAN]
  /\ Start

CallExtract ==
  /\ bank = "direct"
  /\ pc = "scan"
  /\ fnOut' = extractTransactionsFromRawText(fnIn.textContent, fnIn.january)
  /\ pc' = "done"
  /\ UNCHANGED <<bank, i, ruledOut, lastStep, isTransactionSection, currentTransaction, transactions,
                 hist, draftHist, opened, dbsVars, citiVars, fnIn>>

NextDirect == CallExtract

SpecDirect == InitDirect /\ [][NextDirect]_vars

----------------------------------------------------------------------------

(* A primary parser called on one document after another *)

MaxPageLines == 2

DocCitiLines ==
  { <<W("DATE"), W("DESCRIPTION"), W("AMOUNT")>>,
    <<W("Statement"), W("Date:"), Period("January", "2024")>>,
    <<W("SUB-TOTAL:"), A(2550)>>,
    <<W("BALANCE"), W("PREVIOUS"), W("STATEMENT"), A(50000)>>,
    <<D1("20", "DEC"), W("STARBUCKS"), A(1250)>>,
    <<D4("23"), W("7-ELEVEN"), A(300)>>,
    <<W("SINGAPORE"), W("SG")>>,
    <<A(900)>> }

Pages(S) == UNION {[1..n -> S] : n \in 0..MaxPageLines}

\* The documents parsed between two calls on the same text: none (the empty
\* text), one that ends with the gate open and the metadata set, one that
\* ends with a draft open.
OtherDBSDocuments ==
  { <<>>,
    << <<W("Account"), W("No."), W("123-456-7")>>,
       <<W("Transaction"), W("Details")>>,
       <<W("Balance"), W("Brought"), W("Forward"), W("SGD"), AC(100000)>> >>,
    << <<W("Transaction"), W("Details")>>,
       <<Dt("01/02/2024"), W("FAST"), W("PAYMENT"), W("TO:"), W("JOHN"), W("DOE"), A(10000), A(90000)>>,
       <<W("JOHN"), W("DOE")>> >> }

OtherCitiDocuments ==
  { <<>>,
    << <<W("Statement"), W("Date:"), Period("January", "2024")>>,
       <<W("DATE"), W("DESCRIPTION"), W("AMOUNT")>>,
       <<D1("22", "DEC"), W("GRAB")>>,
       <<A(900)>> >>,
    << <<W("DATE"), W("DESCRIPTION"), W("AMOUNT")>>,
       <<D1("20", "DEC"), W("STARBUCKS"), A(1250)>>,
       <<W("SINGAPORE"), W("SG")>> >> }

\* fnIn: the text being parsed, the texts of the calls still to come, and the
\* text and the result of every call that has returned.
DocumentsRunning == "later" \in DOMAIN fnIn
Returned == fnIn.returned

InitDocuments ==
  /\ bank \in {"dbs", "citi"}
  /\ \E text \in IF bank = "dbs" THEN Pages(HostDBSLines) ELSE Pages(DocCitiLines) :
       \E other \in IF bank = "dbs" THEN OtherDBSDocuments ELSE OtherCitiDocuments :
         fnIn = [text |-> text, january |-> FALSE, later |-> <<other, text>>, returned |-> <<>>]
  /\ Start

\* Variant: the locals of the parser are kept from one call to the next, as
\* variables of the module would be.
NextCallKeepsLocals ==
  /\ DocumentsRunning
  /\ pc = "done"
  /\ fnIn.later # <<>>
  /\ fnIn' = [fnIn EXCEPT !.text = Head(fnIn.later), !.later = Tail(fnIn.later),
                          !.returned = Append(Returned, [text |-> fnIn.text, transactions |-> transactions])]
  /\ pc' = "scan"
  /\ i' = 0
  /\ ruledOut' = {}
  /\ lastStep' = ""
  /\ transactions' = <<>>
  /\ hist' = <<>>
  /\ opened' = <<>>
  /\ UNCHANGED <<bank, fnOut, isTransactionSection, currentTransaction, draftHist, dbsVars, citiVars>>

\* The parser returns and is called on the next text: dbs-to-excel.ts 185-198,
\* README.md 382-401, every local at its initializer.
NextCall ==
  /\ DocumentsRunning
  /\ pc = "done"
  /\ fnIn.later # <<>>
  /\ fnIn' = [fnIn EXCEPT !.text = Head(fnIn.later), !.later = Tail(fnIn.later),
                          !.returned = Append(Returned, [text |-> fnIn.text, transactions |-> transactions])]
  /\ pc' = "scan"
  /\ i' = 0
  /\ ruledOut' = {}
  /\ lastStep' = ""
  /\ transactions' = <<>>
  /\ isTransactionSection' = FALSE
  /\ currentAccount' = EmptyStr
  /\ currentTransaction' = NoTransaction
  /\ multiLineDescription' = <<>>
  /\ lastBalance' = 0
  /\ recipientLines' = <<>>
  /\ isCollectingRecipientInfo' = FALSE
  /\ accountNumber' = EmptyStr
  /\ statementPeriod' = <<>>
  /\ cardType' = <<>>
  /\ statementYear' = CurrentYear
  /\ statementMonth' = EmptyStr
  /\ hist' = <<>>
  /\ draftHist' = NoDraftHist
  /\ opened' = <<>>
  /\ bbfAt' = -1
  /\ bbfAmt' = 0
  /\ UNCHANGED <<bank, fnOut>>

NextDocuments ==
  \/ HostReads /\ DBSSectionStart(HostLine)
  \/ HostReads /\ DBSOutsideSection(HostLine)
  \/ HostReads /\ DBSBalanceBroughtForward(HostLine)
  \/ HostReads /\ DBSSkipHeader(HostLine)
  \/ HostReads /\ DBSSectionEnd(HostLine)
  \/ HostReads /\ DBSDateAnchor(HostLine)
  \/ HostReads /\ DBSContinuation(HostLine)
  \/ HostReads /\ DBSIgnored(HostLine)
  \/ HostAtEnd /\ DBSEndOfInput
  \/ HostReads /\ CitiSectionStart(HostLine, HostNext)
  \/ HostReads /\ CitiOutsideSection(HostLine, HostNext)
  \/ HostReads /\ CitiSectionEnd(HostLine, HostNext)
  \/ HostReads /\ CitiSkipped(HostLine, HostNext)
  \/ HostReads /\ CitiDateAnchor(HostLine, HostNext)
  \/ HostReads /\ CitiAmountLine(HostLine, HostNext)
  \/ HostReads /\ CitiContinuation(HostLine, HostNext)
  \/ HostReads /\ CitiIgnored(HostLine, HostNext)
  \/ HostAtEnd /\ CitiEndOfInput
  \/ NextCall

SpecDocuments == InitDocuments /\ [][NextDocuments]_vars

----------------------------------------------------------------------------

(* Properties of the two parsers (Spec) *)

Anchors(h) == [k \in 1..Len(h) |-> h[k].anchor]
OpenedAt == [k \in 1..Len(opened) |-> opened[k].at]

\* The Date a transaction carries is the one its date-anchor line gave it (the
\* Citi parser completes it with the year after the loop).
DateKept(transaction, date) ==
  IF bank = "citi" /\ pc = "done"
  THEN transaction.Date = CitiPostProcess([transaction EXCEPT !.Date = date], statementMonth).Date
  ELSE transaction.Date = date

\* C1: in both parsers the drafts pushed so far, followed by the draft that is
\* still open, are exactly the drafts opened by the date-anchor lines read so
\* far, each once and in the order of those lines; when the call returns every
\* opened draft is in the returned list, once, in document order, whether it was
\* closed by a date anchor, a section end or the end of the input.
ClaimC1 ==
  LET closed == Anchors(hist)
      drafts == IF DraftOpen /\ pc = "scan" THEN Append(closed, draftHist.anchor) ELSE closed
  IN /\ Len(transactions) = Len(hist)
     /\ drafts = OpenedAt
     /\ \A k \in 1..Len(transactions) : DateKept(transactions[k], opened[k].date)
     /\ \A k \in 1..(Len(opened) - 1) : opened[k].at < opened[k + 1].at

\* Two drafts, the first closed by the next date anchor and the second by a
\* section end, are returned.
WitnessC1 ==
  /\ bank = "dbs" /\ pc = "done"
  /\ Len(transactions) = 2
  /\ hist[1].closedBy = "anchor" /\ hist[2].closedBy = "end"
  /\ transactions[1].Date # transactions[2].Date

\* C2: in both parsers a line read while the gate is closed changes neither the
\* output nor the draft and opens no draft; a draft opens only on a step taken
\* with the gate open; and there are never more transactions and drafts than
\* date-anchor lines read inside an open section, so that without such a line
\* the output is empty.
ClaimC2 ==
  [][ /\ (~isTransactionSection /\ pc' = "scan")
           => /\ transactions' = transactions
              /\ currentTransaction' = currentTransaction
              /\ opened' = opened
      /\ (currentTransaction' # currentTransaction /\ currentTransaction' # NoTransaction)
           => isTransactionSection
      /\ Len(transactions') + (IF DraftOpen' /\ pc' = "scan" THEN 1 ELSE 0) <= Len(opened')
      /\ Len(opened') > Len(opened) => (isTransactionSection /\ lastStep' = "date") ]_vars

\* A date-anchor line has just been read after the section was closed behind
\* one transaction: it opened nothing.
WitnessC2 ==
  /\ lastStep = "outside:date"
  /\ Len(transactions) = 1
  /\ Len(opened) = 1
  /\ ~DraftOpen

Cents(str) == IF Truthy(str) THEN str.c ELSE 0
Dist(a, b) == IF a < b THEN b - a ELSE a - b

\* C3 (as claimed): a transaction returned by processDBSStatementData has both
\* Withdrawal and Deposit non-empty only if the last amount assignment that
\* wrote one of them ran with equal withdrawal and deposit keyword scores.
BothOnlyOnEqualScores ==
  (bank = "dbs" /\ pc = "done")
    => \A k \in 1..Len(transactions) :
         (Truthy(transactions[k].Withdrawal) /\ Truthy(transactions[k].Deposit))
           => (hist[k].lastSet.set /\ hist[k].lastSet.scoresEqual)

\* C4 (as claimed): a transaction returned by processCitiStatementData has at
\* most one of Debit and Credit non-empty.
CitiOneSided ==
  (bank = "citi" /\ pc = "done")
    => \A k \in 1..Len(transactions) :
         ~(Truthy(transactions[k].Debit) /\ Truthy(transactions[k].Credit))

\* verifyTransactionAmounts changed the draft of this history entry.
Overwrote(h) == verifyTransactionAmounts(h.pre, h.against) # h.pre

\* C5 (as claimed): for consecutive returned DBS transactions n-1 and n that both
\* have a Balance, if verifyTransactionAmounts overwrote the amount of n then
\* Balance[n] = Balance[n-1] + Deposit[n] - Withdrawal[n] within one cent.
BalanceConsistent ==
  (bank = "dbs" /\ pc = "done")
    => \A n \in 2..Len(transactions) :
         ( /\ Truthy(transactions[n - 1].Balance)
           /\ Truthy(transactions[n].Balance)
           /\ Overwrote(hist[n]) )
           => Dist(Cents(transactions[n].Balance),
                   Cents(transactions[n - 1].Balance) + Cents(transactions[n].Deposit)
                     - Cents(transactions[n].Withdrawal)) <= 1

\* The draft as it is handed to verifyTransactionAmounts when it is closed.
ClosingDraft == WithRecipientInfo(currentTransaction, recipientLines)

\* C9: when processDBSStatementData reads a section-end line with the gate open
\* and a draft open, what it pushes is that draft reconciled against
\* lastBalance as it was before the line, and the step ends with the gate
\* closed, no draft and the recipient collection reset; the gate closes on no
\* other line; and while the gate is closed a line changes neither the output,
\* the draft, lastBalance nor the recipient collection, until a section-start
\* line opens the gate again.
ClaimC9 ==
  [][ (bank = "dbs" /\ pc' = "scan")
        => /\ (isTransactionSection /\ ~isTransactionSection')
                => /\ lastStep' = "end"
                   /\ transactions' = IF DraftOpen
                                      THEN Append(transactions,
                                                  verifyTransactionAmounts(ClosingDraft, lastBalance))
                                      ELSE transactions
                   /\ currentTransaction' = NoTransaction
                   /\ recipientLines' = <<>>
                   /\ isCollectingRecipientInfo' = FALSE
           /\ lastStep' = "end" => ~isTransactionSection'
           /\ (~isTransactionSection /\ ~isTransactionSection')
                => UNCHANGED <<transactions, currentTransaction, lastBalance, recipientLines,
                               isCollectingRecipientInfo, multiLineDescription>>
           /\ (~isTransactionSection /\ isTransactionSection') => lastStep' = "start" ]_vars

\* A draft was closed by a section end, which rewrote its amount from the
\* balances, and a line has been read behind the closed gate since.
WitnessC9 ==
  /\ bank = "dbs" /\ pc = "scan"
  /\ ~isTransactionSection
  /\ lastStep \in {"outside", "outside:date", "outside:amount"}
  /\ Len(hist) = 1
  /\ hist[1].closedBy = "end"
  /\ Overwrote(hist[1])
  /\ transactions[1] = verifyTransactionAmounts(hist[1].pre, hist[1].against)

\* The value the claim gives lastBalance: the Balance of the last draft closed
\* by a date anchor or a section end with a non-empty Balance, unless a Balance
\* Brought Forward amount was read after it; 0 before either.
ExpectedLastBalance ==
  LET from == IF bbfAt < 0 THEN 0 ELSE bbfAt
      ks == {k \in (from + 1)..Len(hist) :
               hist[k].closedBy \in {"anchor", "end"} /\ Truthy(transactions[k].Balance)}
  IN IF ks # {} THEN Cents(transactions[CHOOSE k \in ks : \A j \in ks : j <= k].Balance)
     ELSE IF bbfAt >= 0 THEN bbfAmt
     ELSE 0

\* C10: in processDBSStatementData lastBalance is, after every step, the most
\* recent of the last Balance Brought Forward amount read inside the section and
\* the Balance of the last draft closed by a date anchor or a section end with a
\* non-empty Balance, and 0 before either; a draft closed with an empty Balance
\* leaves it as it was; and the draft pushed by a line is reconciled against the
\* value lastBalance had before that line.
ClaimC10 ==
  [][ bank = "dbs"
        => /\ lastBalance' = ExpectedLastBalance'
           /\ (Len(transactions') = Len(transactions) + 1 /\ pc' = "scan")
                => LET pushed == transactions'[Len(transactions')]
                   IN /\ pushed = verifyTransactionAmounts(ClosingDraft, lastBalance)
                      /\ lastBalance' = IF Truthy(pushed.Balance) THEN Cents(pushed.Balance)
                                        ELSE lastBalance ]_vars

\* After a Balance Brought Forward of 1,000.00, a draft with a Balance and then
\* one without were closed: lastBalance is the Balance of the first.
WitnessC10 ==
  /\ bank = "dbs" /\ pc = "scan"
  /\ bbfAt = 0
  /\ Len(hist) = 2
  /\ Truthy(transactions[1].Balance)
  /\ ~Truthy(transactions[2].Balance)
  /\ lastBalance = Cents(transactions[1].Balance)
  /\ lastBalance # bbfAmt

\* The date line that opened the draft, as long as no line has been added to
\* its description: the date and what followed it.
AnchorLine == <<currentTransaction.Date>> \o multiLineDescription

\* C11: when processDBSStatementData reads a date line that carries amounts,
\* that one step pushes the draft that was open, reconciled against lastBalance
\* as it was, sets lastBalance to the Balance of the pushed draft if it has
\* one, and leaves as the open draft the new draft after processAmounts has run
\* on the date line against that updated lastBalance, with
\* isCollectingRecipientInfo off.
ClaimC11 ==
  [][ (bank = "dbs" /\ lastStep' = "date" /\ DBSAmounts(AnchorLine') # <<>>)
        => LET closed == verifyTransactionAmounts(ClosingDraft, lastBalance)
               carried == IF DraftOpen /\ Truthy(closed.Balance) THEN Cents(closed.Balance)
                          ELSE lastBalance
               fresh == NewDBSTransaction(currentAccount', currentTransaction'.Date,
                                          multiLineDescription')
           IN /\ transactions' = IF DraftOpen THEN Append(transactions, closed) ELSE transactions
              /\ lastBalance' = carried
              /\ currentTransaction' =
                   processAmounts(fresh, AnchorLine', DBSAmounts(AnchorLine'), carried)
              /\ currentTransaction' # fresh
              /\ ~isCollectingRecipientInfo' ]_vars

\* A draft with Balance 5,900.00 was closed by the date line "05/02/2024 MISC
\* 100.00 900.00", with no Balance Brought Forward read: the new draft has
\* Withdrawal 100.00, which only the fall from the Balance of the closed draft
\* tells.
WitnessC11 ==
  /\ bank = "dbs" /\ lastStep = "date"
  /\ bbfAt = -1
  /\ Len(transactions) = 1
  /\ transactions[1].Balance = A(590000)
  /\ lastBalance = 590000
  /\ currentTransaction.Date = Dt("05/02/2024")
  /\ currentTransaction.Withdrawal = A(10000)
  /\ currentTransaction.Deposit = EmptyStr
  /\ currentTransaction.Balance = A(90000)
  /\ ~isCollectingRecipientInfo

\* C17 (as claimed): in processDBSStatementData a continuation line is added
\* to recipientLines only while isCollectingRecipientInfo is on, which a line
\* with amounts has switched off.
RecipientOnlyWhileCollecting ==
  [][ (bank = "dbs" /\ lastStep' = "cont" /\ recipientLines' # recipientLines)
        => isCollectingRecipientInfo ]_vars

\* The call has returned, and the last date line of the input was its last
\* line: the draft it opened was closed by the end of the input as the date
\* line left it.
LastLineDraft(date, text, lastBal) ==
  /\ bank = "dbs" /\ pc = "done"
  /\ Len(hist) >= 1
  /\ hist[Len(hist)].closedBy = "eof"
  /\ hist[Len(hist)].anchor = i - 1
  /\ hist[Len(hist)].against = lastBal
  /\ hist[Len(hist)].pre.Date = date
  /\ hist[Len(hist)].pre.Description = text

ScenarioA ==
  LastLineDraft(Dt("01/02/2024"),
                <<W("FAST"), W("PAYMENT"), W("TO:"), W("JOHN"), W("DOE"), A(10000), A(90000)>>,
                100000)

ScenarioB ==
  LastLineDraft(Dt("02/02/2024"),
                <<W("SALARY"), W("FROM:"), W("ACME"), W("CORP"), A(500000), A(590000)>>,
                90000)

\* C18: when processDBSStatementData has read, with the gate open and
\* lastBalance = 1000.00, the line "01/02/2024 FAST PAYMENT TO: JOHN DOE 100.00
\* 900.00" as the only date line and the last line of the input, it returns
\* exactly one transaction, with Withdrawal 100.00, Balance 900.00, an empty
\* Deposit and Category "Transfer".
ClaimC18 ==
  (ScenarioA /\ Len(hist) = 1)
    => /\ Len(transactions) = 1
       /\ transactions[1].Withdrawal = A(10000)
       /\ transactions[1].Balance = A(90000)
       /\ transactions[1].Deposit = EmptyStr
       /\ transactions[1].Category = "Transfer"

\* Scenario A has run after a Balance Brought Forward of 1,000.00.
WitnessC18 ==
  /\ ScenarioA
  /\ Len(hist) = 1
  /\ bbfAt = 0 /\ bbfAmt = 100000
  /\ transactions[1].Date = Dt("01/02/2024")
  /\ transactions[1].Category = "Transfer"

\* C19 (as claimed): when processDBSStatementData has read, with the gate open
\* and lastBalance = 900.00, the line "02/02/2024 SALARY FROM: ACME CORP 5000.00
\* 5900.00" as the last line of the input, the transaction it returns for it
\* has Deposit 5000.00, Balance 5900.00 and Category "Salary".
ScenarioBSalary ==
  ScenarioB
    => /\ transactions[Len(transactions)].Deposit = A(500000)
       /\ transactions[Len(transactions)].Balance = A(590000)
       /\ transactions[Len(transactions)].Category = "Salary"

\* No keyword rule of the categorizer matches a returned transaction.
NoDBSRule(transaction) ==
  /\ (transaction.RecipientInfo # <<>>) => FromRecipientInfo(transaction, <<>>).category = ""
  /\ ~HasAny(transaction.Description,
             {"ATM", "WITHDRAWAL", "FEE", "CHARGE", "INTEREST", "DIVIDEND", "TAX"})
NoCitiRule(transaction) ==
  \A n \in 1..Len(CitiRules) : ~RuleMatches(transaction.Description, CitiRules[n])

\* C20 (as claimed): a transaction returned by either parser that no keyword
\* rule matches has Category "Income" if its Deposit / Credit is set, "Expense"
\* if that is empty and its Withdrawal / Debit is set, and "" if neither is.
FallbackByCredit ==
  (pc = "done")
    => \A k \in 1..Len(transactions) :
         /\ (bank = "dbs" /\ NoDBSRule(transactions[k]))
              => transactions[k].Category =
                   IF Truthy(transactions[k].Deposit) THEN "Income"
                   ELSE IF Truthy(transactions[k].Withdrawal) THEN "Expense"
                   ELSE ""
         /\ (bank = "citi" /\ NoCitiRule(transactions[k]))
              => transactions[k].Category =
                   IF Truthy(transactions[k].Credit) THEN "Income"
                   ELSE IF Truthy(transactions[k].Debit) THEN "Expense"
                   ELSE ""

----------------------------------------------------------------------------
(* Properties of verifyTransactionAmounts (SpecFn) *)

\* C6: called on a draft with a Balance and lastBalance > 0, if the balance fell
\* and the recorded Withdrawal is set and differs from the fall by more than
\* 0.01, the result has Withdrawal = lastBalance - Balance with two decimals and
\* an empty Deposit; if the balance rose and the recorded Deposit is set and
\* differs from the rise by more than 0.01, the result has Deposit = Balance -
\* lastBalance and an empty Withdrawal.
ClaimC6 ==
  (bank = "fn" /\ pc = "done")
    => LET t == fnIn.transaction
           lb == fnIn.lastBalance
       IN (Truthy(t.Balance) /\ lb > 0)
            => /\ ( /\ Cents(t.Balance) < lb
                    /\ Truthy(t.Withdrawal)
                    /\ Dist(Cents(t.Withdrawal), lb - Cents(t.Balance)) > 1 )
                    => ( /\ fnOut.Withdrawal = A(lb - Cents(t.Balance))
                         /\ fnOut.Deposit = EmptyStr )
               /\ ( /\ Cents(t.Balance) > lb
                    /\ Truthy(t.Deposit)
                    /\ Dist(Cents(t.Deposit), Cents(t.Balance) - lb) > 1 )
                    => ( /\ fnOut.Deposit = A(Cents(t.Balance) - lb)
                         /\ fnOut.Withdrawal = EmptyStr )

\* The balance fell by 100.00, the draft said Withdrawal 200.00 and had a
\* Deposit too: the call has rewritten the one and cleared the other.
WitnessC6 ==
  /\ bank = "fn" /\ pc = "done"
  /\ fnIn.lastBalance = 100000
  /\ fnIn.transaction.Balance = A(90000)
  /\ fnIn.transaction.Withdrawal = A(20000)
  /\ Truthy(fnIn.transaction.Deposit)
  /\ fnOut.Withdrawal = A(10000)
  /\ fnOut.Deposit = EmptyStr

\* C7 (as claimed): called on a draft with a Balance and lastBalance > 0, if the
\* balance fell and Withdrawal is not set, the result has Withdrawal =
\* lastBalance - Balance and an empty Deposit; if the balance rose and Deposit
\* is not set, the result has Deposit = Balance - lastBalance and an empty
\* Withdrawal.
MissingAmountCorrected ==
  (bank = "fn" /\ pc = "done")
    => LET t == fnIn.transaction
           lb == fnIn.lastBalance
       IN (Truthy(t.Balance) /\ lb > 0)
            => /\ (Cents(t.Balance) < lb /\ ~Truthy(t.Withdrawal))
                    => ( /\ fnOut.Withdrawal = A(lb - Cents(t.Balance))
                         /\ fnOut.Deposit = EmptyStr )
               /\ (Cents(t.Balance) > lb /\ ~Truthy(t.Deposit))
                    => ( /\ fnOut.Deposit = A(Cents(t.Balance) - lb)
                         /\ fnOut.Withdrawal = EmptyStr )

\* C8: the call returns the draft as it was given whenever the draft has no
\* Balance, or lastBalance is not positive, or Balance equals lastBalance.
ClaimC8 ==
  (bank = "fn" /\ pc = "done")
    => LET t == fnIn.transaction
           lb == fnIn.lastBalance
       IN (~Truthy(t.Balance) \/ lb <= 0 \/ parseFloat(t.Balance) = Num(lb))
            => /\ fnOut.Withdrawal = t.Withdrawal
               /\ fnOut.Deposit = t.Deposit
               /\ fnOut.Balance = t.Balance

\* A draft with both amounts set whose Balance equals lastBalance has been
\* through the call.
WitnessC8 ==
  /\ bank = "fn" /\ pc = "done"
  /\ fnIn.lastBalance > 0
  /\ parseFloat(fnIn.transaction.Balance) = Num(fnIn.lastBalance)
  /\ Truthy(fnIn.transaction.Withdrawal) /\ Truthy(fnIn.transaction.Deposit)
  /\ fnOut = fnIn.transaction

----------------------------------------------------------------------------
(* Properties of processAmounts (SpecPA) *)

\* The arguments and the result of the call.
PAIn == fnIn.transaction
PALine == fnIn.line
PATokens == DBSAmounts(fnIn.line)
PACalled == bank = "pa" /\ pc = "done"
\* The balance the line declares: its last amount, in cents.
PADeclared == PATokens[Len(PATokens)].c
\* isWithdrawal / isDeposit as the scoring leaves them.
PAWithdrawal == Direction(fnIn.transaction, fnIn.line).isWithdrawal
PADeposit == Direction(fnIn.transaction, fnIn.line).isDeposit

\* C12 (as claimed): called on a line that has a withdrawal and a deposit
\* indicator, with equal withdrawal and deposit scores of the description, two
\* amounts and lastBalance > 0, processAmounts stores the first amount as
\* Withdrawal when the second is below lastBalance and as Deposit when it is
\* above, and leaves the other field as it was.
EqualScoresUseBalance ==
  ( /\ PACalled
    /\ LineIsWithdrawal(PALine) /\ LineIsDeposit(PALine)
    /\ withdrawalScore(PAIn.Description) = depositScore(PAIn.Description)
    /\ Len(PATokens) = 2
    /\ fnIn.lastBalance > 0 )
    => /\ PADeclared < fnIn.lastBalance
            => (fnOut.Withdrawal = PATokens[1] /\ fnOut.Deposit = PAIn.Deposit)
       /\ PADeclared > fnIn.lastBalance
            => (fnOut.Deposit = PATokens[1] /\ fnOut.Withdrawal = PAIn.Withdrawal)

\* C13: called with exactly one amount, processAmounts stores it as Balance,
\* and as neither Withdrawal nor Deposit, if the line has a DD/MM/YYYY date or
\* if neither direction is indicated; otherwise it stores it as Withdrawal if
\* a withdrawal is indicated and else as Deposit, and leaves Balance as it was.
ClaimC13 ==
  (PACalled /\ Len(PATokens) = 1)
    => IF HasDate(PALine) \/ (~PAWithdrawal /\ ~PADeposit)
       THEN /\ fnOut.Balance = PATokens[1]
            /\ fnOut.Withdrawal \in {PAIn.Withdrawal, EmptyStr}
            /\ fnOut.Deposit \in {PAIn.Deposit, EmptyStr}
       ELSE /\ fnOut.Balance = PAIn.Balance
            /\ IF PAWithdrawal THEN fnOut.Withdrawal = PATokens[1]
               ELSE fnOut.Deposit = PATokens[1]

\* The one amount of a date line that says PAYMENT TO: has become the Balance
\* of the draft, and its Withdrawal is still empty.
WitnessC13 ==
  /\ PACalled
  /\ Len(PATokens) = 1
  /\ HasDate(PALine)
  /\ PAWithdrawal /\ ~PADeposit
  /\ fnOut.Balance = PATokens[1]
  /\ fnOut.Withdrawal = EmptyStr

\* C14: called with two or more amounts, processAmounts sets Balance to the
\* last of them, and Withdrawal and Deposit are each what they were, empty, or
\* the first amount; with three or more amounts and a Withdrawal or Deposit
\* already on the draft, neither field is given an amount of the line.
ClaimC14 ==
  (PACalled /\ Len(PATokens) >= 2)
    => /\ fnOut.Balance = PATokens[Len(PATokens)]
       /\ fnOut.Withdrawal \in {PAIn.Withdrawal, EmptyStr, PATokens[1]}
       /\ fnOut.Deposit \in {PAIn.Deposit, EmptyStr, PATokens[1]}
       /\ (Len(PATokens) >= 3 /\ (Truthy(PAIn.Withdrawal) \/ Truthy(PAIn.Deposit)))
            => /\ fnOut.Withdrawal \in {PAIn.Withdrawal, EmptyStr}
               /\ fnOut.Deposit \in {PAIn.Deposit, EmptyStr}

\* A line with a withdrawal keyword and three amounts met a draft that had a
\* Withdrawal: the Withdrawal is the old one and the Balance the last amount.
WitnessC14 ==
  /\ PACalled
  /\ Len(PATokens) = 3
  /\ PAWithdrawal /\ ~PADeposit
  /\ Truthy(PAIn.Withdrawal)
  /\ PAIn.Withdrawal # PATokens[1]
  /\ fnOut.Withdrawal = PAIn.Withdrawal
  /\ fnOut.Balance = PATokens[3]
  /\ fnOut.Balance # PAIn.Balance

\* C15 (as claimed): called on a line that indicates no direction, with
\* lastBalance > 0 and either two amounts or three and more amounts and no
\* Withdrawal or Deposit yet on the draft, processAmounts stores the first
\* amount as Withdrawal if the last amount is below lastBalance, as Deposit if
\* it is above, and if it is equal as Withdrawal when the description has TO:,
\* PAYMENT or Debit Card and as Deposit when it has none.
BalanceDecidesUndetermined ==
  ( /\ PACalled
    /\ ~PAWithdrawal /\ ~PADeposit
    /\ fnIn.lastBalance > 0
    /\ \/ Len(PATokens) = 2
       \/ Len(PATokens) >= 3 /\ ~Truthy(PAIn.Withdrawal) /\ ~Truthy(PAIn.Deposit) )
    => LET keyword == \/ Includes(PAIn.Description, "TO:")
                      \/ Includes(PAIn.Description, "PAYMENT")
                      \/ Includes(PAIn.Description, "Debit Card")
           withdrawal == \/ PADeclared < fnIn.lastBalance
                         \/ PADeclared = fnIn.lastBalance /\ keyword
       IN IF withdrawal THEN fnOut.Withdrawal = PATokens[1]
          ELSE fnOut.Deposit = PATokens[1]

\* C16: after a call on a line for which, after the scoring, exactly one of
\* withdrawal and deposit is indicated, the draft does not have both
\* Withdrawal and Deposit set, whatever earlier lines had set: if the field of
\* the indicated direction is set, the other one is empty.
ClaimC16 ==
  (PACalled /\ PAWithdrawal # PADeposit)
    => /\ ~(Truthy(fnOut.Withdrawal) /\ Truthy(fnOut.Deposit))
       /\ (PAWithdrawal /\ Truthy(fnOut.Withdrawal)) => fnOut.Deposit = EmptyStr
       /\ (PADeposit /\ Truthy(fnOut.Deposit)) => fnOut.Withdrawal = EmptyStr

\* A draft that had a Deposit from an earlier line met a line with TO: and two
\* amounts: it now has the Withdrawal and no Deposit.
WitnessC16 ==
  /\ PACalled
  /\ PAWithdrawal /\ ~PADeposit
  /\ Truthy(PAIn.Deposit)
  /\ ~Truthy(PAIn.Withdrawal)
  /\ Len(PATokens) = 2
  /\ fnOut.Withdrawal = PATokens[1]
  /\ fnOut.Deposit = EmptyStr

----------------------------------------------------------------------------
(* Properties of the categorizers applied a second time (Spec) *)

\* C21 (as claimed): categorizing is idempotent. Applying cleanupDescription
\* (DBS) or categorizeTransaction (Citi) once more to a transaction the parser
\* returned leaves its Category and its Description as they are: the
\* annotations taken from RecipientInfo are not appended a second time.
CategorizerIdempotent ==
  (pc = "done")
    => \A k \in 1..Len(transactions) :
         /\ (bank = "dbs")
              => /\ cleanupDescription(transactions[k]).Description = transactions[k].Description
                 /\ cleanupDescription(transactions[k]).Category = transactions[k].Category
         /\ (bank = "citi")
              => /\ categorizeTransaction(transactions[k]).Description = transactions[k].Description
                 /\ categorizeTransaction(transactions[k]).Category = transactions[k].Category

----------------------------------------------------------------------------
(* Properties of addSummaryRow (SpecSum) *)

SumCalled == bank = "sum" /\ pc = "done"
SumDebit == IF fnIn.variant = "dbs" THEN "Withdrawal" ELSE "Debit"
SumCredit == IF fnIn.variant = "dbs" THEN "Deposit" ELSE "Credit"
\* The rows the call has appended.
SumAppended == SubSeq(fnOut, Len(fnIn.data) + 1, Len(fnOut))

IsSubtotal(row) == Len(row.Description) = 2 /\ row.Description[1] = W("SUBTOTAL:")
IsTotal(row) == row.Description = <<W("TOTAL")>>
LabelOf(row) == row.Description[2].s
BlankDate(row) == row.Date \in {EmptyStr, <<>>}

\* The value of an amount that parses, in cents; 0 for one that does not.
Parsed(str) == IF str.k = "a" /\ str.f # "()" THEN str.c ELSE 0
Parses(str) == str.k = "a" /\ str.f # "()"

RECURSIVE SumCents(_, _, _)
SumCents(data, field, S) ==
  IF S = {} THEN 0
  ELSE LET k == CHOOSE k \in S : TRUE
       IN Parsed(data[k][field]) + SumCents(data, field, S \ {k})

\* The category a transaction is totalled under.
KeyOf(transaction) == IF transaction.Category = "" THEN "Uncategorized" ELSE transaction.Category
InCategory(data, category) == {k \in 1..Len(data) : KeyOf(data[k]) = category}
\* The first transaction of a category that has an amount which parses.
FirstSeen(data, category) ==
  First({k \in InCategory(data, category) :
           Parses(data[k][SumDebit]) \/ Parses(data[k][SumCredit])} \cup {Len(data) + 1})

\* C22 (as claimed): the call appends exactly one SUBTOTAL row per category
\* whose debit or credit total is not zero, in the order the categories are
\* first seen, then exactly one TOTAL row, and no other row; a category whose
\* amounts sum to zero gets no row.
SummaryRowsAsClaimed ==
  (SumCalled /\ fnIn.data # <<>>)
    => LET rows == SumAppended
           nonzero == {c \in {KeyOf(fnIn.data[k]) : k \in 1..Len(fnIn.data)} :
                         \/ SumCents(fnIn.data, SumDebit, InCategory(fnIn.data, c)) # 0
                         \/ SumCents(fnIn.data, SumCredit, InCategory(fnIn.data, c)) # 0}
       IN /\ Len(rows) = Cardinality(nonzero) + 1
          /\ IsTotal(rows[Len(rows)])
          /\ \A n \in 1..(Len(rows) - 1) : IsSubtotal(rows[n]) /\ LabelOf(rows[n]) \in nonzero
          /\ \A m, n \in 1..(Len(rows) - 1) :
               m < n => FirstSeen(fnIn.data, LabelOf(rows[m])) < FirstSeen(fnIn.data, LabelOf(rows[n]))

\* C23: the last row is the TOTAL row and its two amounts are the sums of all
\* amounts that parse, amounts that do not parse being skipped; every
\* transaction with an amount that parses has the SUBTOTAL row of its category
\* (Uncategorized when its Category is empty), whose amounts are the sums over
\* that category; the TOTAL amounts are the sums of the SUBTOTAL amounts.
ClaimC23 ==
  SumCalled
    => LET data == fnIn.data
           rows == SumAppended
           total == rows[Len(rows)]
           subtotals == {n \in 1..Len(rows) : IsSubtotal(rows[n])}
       IN /\ IsTotal(total)
          /\ total[SumDebit] = A(SumCents(data, SumDebit, 1..Len(data)))
          /\ total[SumCredit] = A(SumCents(data, SumCredit, 1..Len(data)))
          /\ \A k \in 1..Len(data) :
               (Parses(data[k][SumDebit]) \/ Parses(data[k][SumCredit]))
                 => \E n \in subtotals : LabelOf(rows[n]) = KeyOf(data[k])
          /\ \A n \in subtotals :
               /\ Parsed(rows[n][SumDebit]) = SumCents(data, SumDebit, InCategory(data, LabelOf(rows[n])))
               /\ Parsed(rows[n][SumCredit]) = SumCents(data, SumCredit, InCategory(data, LabelOf(rows[n])))
          /\ Parsed(total[SumDebit]) = SumCents(rows, SumDebit, subtotals)
          /\ Parsed(total[SumCredit]) = SumCents(rows, SumCredit, subtotals)

\* Three transactions, one without a Category, one with a debit that does not
\* parse, two of them in the same category: the Uncategorized row and the TOTAL
\* row are there and the TOTAL debit is not zero.
WitnessC23 ==
  /\ SumCalled
  /\ Len(fnIn.data) = 3
  /\ \E k \in 1..3 : fnIn.data[k].Category = "" /\ Parses(fnIn.data[k][SumDebit])
  /\ \E k \in 1..3 : fnIn.data[k][SumDebit] = W("NaN")
  /\ \E j, k \in 1..3 : j # k /\ fnIn.data[j].Category = fnIn.data[k].Category
  /\ \E n \in 1..Len(SumAppended) :
       IsSubtotal(SumAppended[n]) /\ LabelOf(SumAppended[n]) = "Uncategorized"
  /\ Parsed(fnOut[Len(fnOut)][SumDebit]) > 0
  /\ Parsed(fnOut[Len(fnOut)][SumCredit]) > 0

\* C24: the call leaves the transactions it is given as they are and where
\* they are: the first n elements of the list are the n transactions, in
\* order, and every row after them is a summary row, which has no Date.
ClaimC24 ==
  SumCalled
    => /\ Len(fnOut) > Len(fnIn.data)
       /\ \A k \in 1..Len(fnIn.data) : fnOut[k] = fnIn.data[k]
       /\ \A k \in (Len(fnIn.data) + 1)..Len(fnOut) : BlankDate(fnOut[k])

\* Three different transactions were given and more rows than these came back.
WitnessC24 ==
  /\ SumCalled
  /\ fnIn.variant = "dbs"
  /\ Len(fnIn.data) = 3
  /\ fnIn.data[1] # fnIn.data[2] /\ fnIn.data[2] # fnIn.data[3] /\ fnIn.data[1] # fnIn.data[3]
  /\ Len(fnOut) > 5

\* C25 (as claimed): every SUBTOTAL row and the TOTAL row has a blank Date, a
\* blank Balance and a blank Category: only the Description and the two
\* totals are filled in.
SummaryRowsBlankCategory ==
  (SumCalled /\ fnIn.data # <<>>)
    => \A n \in 1..Len(SumAppended) :
         (IsSubtotal(SumAppended[n]) \/ IsTotal(SumAppended[n]))
           => /\ BlankDate(SumAppended[n])
              /\ SumAppended[n].Balance = EmptyStr
              /\ SumAppended[n].Category = ""

----------------------------------------------------------------------------
(* Properties of the two hosts (SpecHost) *)

\* The fallback stage, the merge of the direct extraction and the summary
\* stage are behind the host.
AfterFallback == HostRunning /\ pc \in {"fallback", "merged", "out"}
AfterMerge == HostRunning /\ pc = IF bank = "dbs" THEN "fallback" ELSE "merged"
\* The list the host held when the direct extraction was called
BeforeDirect == IF fnOut.alternative # <<>> THEN fnOut.alternative[1] ELSE fnOut.primary

\* C26 (as claimed): in both hosts a fallback extractor, the alternative
\* parser or the direct extraction, has been called only if the primary parser
\* returned no transaction.
FallbackOnlyAfterEmptyPrimary ==
  AfterFallback
    => ((fnOut.alternative # <<>> \/ fnOut.direct # <<>>) => fnOut.primary = <<>>)

\* Two records describe the same transaction.
SameEntry(a, b) ==
  /\ a.Date = b.Date
  /\ a.Description = b.Description
  /\ a[IF bank = "dbs" THEN "Withdrawal" ELSE "Debit"] = b[IF bank = "dbs" THEN "Withdrawal" ELSE "Debit"]
  /\ a[IF bank = "dbs" THEN "Deposit" ELSE "Credit"] = b[IF bank = "dbs" THEN "Deposit" ELSE "Credit"]

\* C27 (as claimed): in both hosts, when the primary parser returned no
\* transaction the alternative parser has been called, and every transaction
\* it returned is in the list the host goes on with.
AlternativeBecomesResult ==
  (AfterMerge /\ fnOut.primary = <<>>)
    => /\ fnOut.alternative # <<>>
       /\ \A k \in 1..Len(fnOut.alternative[1]) :
            \E n \in 1..Len(transactions) : SameEntry(transactions[n], fnOut.alternative[1][k])

\* C28 (as claimed): after the Citi host has merged a direct extraction that
\* found something, no two transactions of the list have the same Date, the
\* same amount (Debit if set, otherwise Credit) and the same first ten
\* characters of Description.
NoDuplicatesAfterMerge ==
  (HostRunning /\ bank = "citi" /\ pc = "merged" /\ fnOut.direct # <<>> /\ fnOut.direct[1] # <<>>)
    => \A m, n \in 1..Len(transactions) :
         m < n => KeyOfTransaction(transactions[m]) # KeyOfTransaction(transactions[n])

\* C29 (as claimed): the merge of the Citi host drops nothing. Every transaction
\* the host held before the direct extraction has its match on Date, amount
\* and first ten characters in the list after it, and every transaction of the
\* direct extraction that matches none of those on the three is in the list:
\* two transactions that differ in the debit amount only are both there.
MergeDropsNothing ==
  (HostRunning /\ bank = "citi" /\ pc = "merged" /\ fnOut.direct # <<>>)
    => /\ \A k \in 1..Len(BeforeDirect) :
            \E n \in 1..Len(transactions) :
              KeyOfTransaction(transactions[n]) = KeyOfTransaction(BeforeDirect[k])
       /\ \A k \in 1..Len(fnOut.direct[1]) :
            (\A m \in 1..Len(BeforeDirect) :
               KeyOfTransaction(BeforeDirect[m]) # KeyOfTransaction(fnOut.direct[1][k]))
              => \E n \in 1..Len(transactions) : transactions[n] = fnOut.direct[1][k]

\* C30: in both hosts the last stage turns an empty list into the one
\* placeholder record with its Note, and a list of transactions into that list
\* followed by summary rows, the TOTAL row last. A text without a non-blank
\* line reaches the stage with an empty list: for it the output is the
\* placeholder alone.
ClaimC30 ==
  [][(AfterMerge /\ pc' = "out")
       => /\ (HostLines = <<>>) => transactions = <<>>
          /\ (transactions = <<>>) => transactions' = <<Placeholder>>
          /\ (transactions # <<>>)
               => /\ Len(transactions') > Len(transactions)
                  /\ SubSeq(transactions', 1, Len(transactions)) = transactions
                  /\ IsTotal(transactions'[Len(transactions')])]_vars

\* A text of blank lines only has gone through a host: the output is the
\* placeholder record.
WitnessC30 ==
  /\ HostRunning
  /\ pc = "out"
  /\ Len(fnIn.text) = MaxDocLines
  /\ HostLines = <<>>
  /\ fnOut.primary = <<>>
  /\ fnOut.alternative = <<<<>>>>
  /\ transactions = <<Placeholder>>

----------------------------------------------------------------------------
(* The section gate and the open draft (Spec) *)

\* C34: in both primary parsers, in every state of the line scan, a closed
\* section gate implies that no draft is open.
ClaimC34 ==
  (bank \in {"dbs", "citi"} /\ pc = "scan" /\ ~isTransactionSection) => ~DraftOpen

\* The Citi parser has just read a section-end line that closed a draft, and
\* goes on scanning with the gate closed.
WitnessC34 ==
  /\ bank = "citi"
  /\ pc = "scan"
  /\ lastStep = "end"
  /\ ~isTransactionSection
  /\ Len(hist) > 0
  /\ hist[Len(hist)].closedBy = "end"

\* C35: in processDBSStatementData a section-start line read while a draft is
\* open leaves the draft open and unchanged (it is not pushed, the line is not
\* added to its description or recipient lines, lastBalance is unchanged), and
\* a continuation line read right after it extends that same draft.
ClaimC35 ==
  [][/\ (bank = "dbs" /\ pc = "scan" /\ DraftOpen /\ lastStep' = "start")
          => /\ UNCHANGED <<currentTransaction, multiLineDescription, recipientLines,
                            isCollectingRecipientInfo, lastBalance, transactions, hist, draftHist>>
             /\ isTransactionSection'
     /\ (bank = "dbs" /\ DraftOpen /\ lastStep = "start" /\ lastStep' = "cont")
          => /\ transactions' = transactions
             /\ currentTransaction' # NoTransaction
             /\ currentTransaction'.Date = currentTransaction.Date
             /\ draftHist'.anchor = draftHist.anchor
             /\ \/ multiLineDescription' # multiLineDescription
                \/ currentTransaction' # currentTransaction
                \/ isCollectingRecipientInfo' = FALSE]_vars

\* A section start has just been read with a draft open.
WitnessC35 ==
  /\ bank = "dbs"
  /\ pc = "scan"
  /\ lastStep = "start"
  /\ DraftOpen
  /\ draftHist.anchor = i - 2

----------------------------------------------------------------------------
(* The Date of a Citi transaction (Spec) *)

\* C37: every transaction processCitiStatementData returns has a Date made of
\* a day, a month and a year, also when its line starts with a bare two-digit
\* day and no Statement Date line was read before it.
CitiDateComplete ==
  (bank = "citi" /\ pc = "done")
    => \A k \in 1..Len(transactions) :
         /\ Len(transactions[k].Date) = 3
         /\ \A n \in 1..3 : Truthy(transactions[k].Date[n])

----------------------------------------------------------------------------

(* The Description of a DBS transaction (Spec) *)

\* C39: after cleanupDescription the Description of a DBS transaction holds
\* no amount token, also when the date-anchor line carried both a recipient
\* marker and the amounts.
DescriptionWithoutAmounts ==
  (bank = "dbs" /\ pc = "done")
    => \A k \in 1..Len(transactions) :
         \A n \in 1..Len(transactions[k].Description) :
           transactions[k].Description[n].k # "a"

----------------------------------------------------------------------------

(* processDBSStatementData on a given text (SpecHost) *)

\* The parser reads a line of the text
DBSReadsLine == bank = "dbs" /\ HostReads

\* The first test of the loop body, in the claimed order, that a line read
\* inside the section passes.
FirstTestPassed(line) ==
  IF IsSectionStart(line) THEN "start"
  ELSE IF Includes(line, "Balance Brought Forward") THEN "bbf"
  ELSE IF Includes(line, "CURRENCY:") \/ Includes(line, "Account Summary") THEN "skip"
  ELSE IF Includes(line, "Total") \/ Includes(line, "End of Statement") THEN "end"
  ELSE IF HasDate(line) THEN "date"
  ELSE "other"

\* C36: inside the section the branch a line takes is the first it qualifies
\* for in the order section start, Balance Brought Forward, CURRENCY: /
\* Account Summary, section end, date anchor. A line with both a date and the
\* word Total opens no draft and closes the gate, and a line read while the
\* gate is closed, a date-anchor line included, is dropped unless it is a
\* section start.
ClaimC36 ==
  [][DBSReadsLine =>
       /\ (isTransactionSection \/ IsSectionStart(HostLine))
            => IF FirstTestPassed(HostLine) = "other" THEN lastStep' \in {"cont", "none"}
               ELSE lastStep' = FirstTestPassed(HostLine)
       /\ (isTransactionSection /\ HasDate(HostLine) /\ Includes(HostLine, "Total")
           /\ ~IsSectionStart(HostLine))
            => /\ opened' = opened
               /\ currentTransaction' = NoTransaction
               /\ ~isTransactionSection'
       /\ (~isTransactionSection /\ ~IsSectionStart(HostLine))
            => /\ ~isTransactionSection'
               /\ UNCHANGED <<opened, currentTransaction, transactions>>]_vars

\* After the section start a line with a date and the word Total was read, and
\* the date-anchor line after it has been dropped.
WitnessC36 ==
  /\ bank = "dbs"
  /\ HostRunning
  /\ pc = "scan"
  /\ i = 3
  /\ IsSectionStart(HostLines[1])
  /\ HasDate(HostLines[2]) /\ Includes(HostLines[2], "Total")
  /\ HasDate(HostLines[3]) /\ ~Includes(HostLines[3], "Total")
  /\ lastStep = "outside:date"
  /\ opened = <<>>
  /\ transactions = <<>>

\* The account number in a line that matches /Account No\.\s+(\d+-\d+-\d+)/
NamesAccount(line) == \E n \in 1..Len(line) : AccountAt(line, n)
NamedAccount(line) == line[(CHOOSE n \in 1..Len(line) : AccountAt(line, n)) + 2]

\* The account number of the last account line among the first n lines of
\* the text, or the empty string
LastAccount(n) ==
  LET S == {m \in 1..n : NamesAccount(HostLines[m])}
  IN IF S = {} THEN EmptyStr
     ELSE NamedAccount(HostLines[CHOOSE m \in S : \A k \in S : k <= m])

----------------------------------------------------------------------------
(* processCitiStatementData on a given text (SpecCitiText) *)

\* The line read with the gate open starts a draft, or is read with a draft
\* open and holds the amount of that draft.
StoresAmount == bank = "citi" /\ HostReads /\ lastStep' \in {"date", "amount"}

\* Debit and Credit of the draft before the line's amount is stored: a date
\* anchor starts a draft with both empty.
SidesBefore ==
  IF lastStep' = "date" THEN [Debit |-> EmptyStr, Credit |-> EmptyStr]
  ELSE [Debit |-> currentTransaction.Debit, Credit |-> currentTransaction.Credit]

\* C33: in processCitiStatementData, on a date-anchor line and on a line read
\* for its amount while a draft is open, the first amount token of the line is
\* stored in Credit, without the parentheses, if and only if it is wrapped in
\* parentheses, and in Debit otherwise; no other token of the line is stored.
ClaimC33 ==
  [][StoresAmount =>
       LET tokens == SelectToks(HostLine, "a")
       IN IF tokens = <<>>
          THEN /\ currentTransaction'.Debit = SidesBefore.Debit
               /\ currentTransaction'.Credit = SidesBefore.Credit
          ELSE IF tokens[1].f = "()"
          THEN /\ currentTransaction'.Credit = A(tokens[1].c)
               /\ currentTransaction'.Debit = SidesBefore.Debit
          ELSE /\ currentTransaction'.Debit = tokens[1]
               /\ currentTransaction'.Credit = SidesBefore.Credit]_vars

\* A line with two amounts, the first of them in parentheses, has been read
\* for the open draft, whose debit was set before.
WitnessC33 ==
  /\ bank = "citi"
  /\ HostRunning
  /\ pc = "scan"
  /\ lastStep = "amount"
  /\ i = 3
  /\ HostLines[3] = <<AP(700), A(900)>>
  /\ currentTransaction.Credit = A(700)
  /\ currentTransaction.Debit = A(4500)

----------------------------------------------------------------------------
(* extractTransactionsFromRawText (SpecDirect) *)

DirectCalled == bank = "direct" /\ pc = "done"

\* The text holds a date with this day and month, and an amount of this value
DateInText(text, date) ==
  \E n \in 1..Len(Flatten(text)) :
    /\ Flatten(text)[n].k = "d1"
    /\ date[1] = W(Flatten(text)[n].s)
    /\ date[2] = W(Flatten(text)[n].f)
AmountInText(text, amount) ==
  \E n \in 1..Len(Flatten(text)) :
    Flatten(text)[n].k = "a" /\ Flatten(text)[n].c = amount.c

\* C38: every transaction extractTransactionsFromRawText returns has a date
\* and an amount that occur in the input text, also when the text holds
\* ShopBackPappaRichN without a date before it and an amount after it.
ExtractedFromInput ==
  DirectCalled
    => \A k \in 1..Len(fnOut) :
         /\ DateInText(fnIn.textContent, fnOut[k].Date)
         /\ AmountInText(fnIn.textContent, DebitOrCredit(fnOut[k]))

----------------------------------------------------------------------------
(* One parser, several documents (SpecDocuments) *)

\* C31: the parse state is fresh per document. Every call of a primary parser
\* starts with the section gate closed, no current account, a running balance
\* of zero and no open draft, and the result of parsing a text is what an
\* earlier call on the same text returned, whatever was parsed in between.
ClaimC31 ==
  DocumentsRunning
    => /\ (pc = "scan" /\ i = 0)
            => /\ ~isTransactionSection
               /\ currentTransaction = NoTransaction
               /\ bank = "dbs" => (currentAccount = EmptyStr /\ lastBalance = 0)
               /\ bank = "citi" => (accountNumber = EmptyStr /\ statementMonth = EmptyStr)
       /\ pc = "done"
            => \A k \in 1..Len(Returned) :
                 Returned[k].text = fnIn.text => Returned[k].transactions = transactions

\* The third call has returned transactions for the text of the first call,
\* after a call on another text that returned transactions as well.
WitnessC31 ==
  /\ DocumentsRunning
  /\ pc = "done"
  /\ fnIn.later = <<>>
  /\ Len(Returned) = 2
  /\ Returned[1].text = fnIn.text
  /\ Returned[2].text # fnIn.text
  /\ Len(Returned[2].transactions) > 0
  /\ Len(transactions) > 0

====
